---- MODULE Spec2Model ----
(***************************************************************************)
(* M4RI: dense matrices over GF(2) packed into 64-bit words.               *)
(*                                                                         *)
(* A word is modelled as the set of its set bit positions (a subset of     *)
(* 0..63), so shifts, masks and XOR are computed bit-exactly without any   *)
(* integer overflow.  A matrix is a descriptor (nrows, ncols, width,       *)
(* offset) and its row storage rows[i][k], the k-th word reachable from    *)
(* the row pointer M->rows[i].  The storage holds NWords words per row,    *)
(* which may be more than M.width: the words (and the bits of the first    *)
(* and last word) outside the logical span belong to the parent matrix.    *)
(***************************************************************************)
EXTENDS Integers, Sequences, FiniteSets, TLC

VARIABLES M, rows, old, pc, args, values, ret, srcA, srcB, W, calls,
          kay, ord, inc, Brows, T, step,
          codebook, mem, fault, first, before, ncalls,
          raw, bytes, stderr,
          prod, lay, ech

\* The variables of a window into M: its descriptor and the calls made through it.
winVars == <<W, calls>>

\* The variables of a Gray code of length kay and of the table built with it.
grayVars == <<kay, ord, inc, Brows, T, step>>

\* The variables of a matrix and of the last call on it.
matVars == <<M, rows, old, values, srcA, srcB>>

\* The global codebook pointer, the heap it lives in, and the history of the calls
\* of the library's initialisation and teardown.
lifeVars == <<codebook, mem, fault, first, before, ncalls>>

\* One call of an allocation wrapper: what the underlying allocator handed out,
\* the block the wrapper returned, and what has been written to stderr.
allocVars == <<raw, bytes, stderr>>

\* The products a multiplication test has computed.
mulVars == <<prod>>

\* The layout of a matrix in its blocks; an echelonization in progress.
layVars == <<lay>>

echVars == <<ech>>

vars == <<matVars, pc, args, ret, winVars, grayVars, lifeVars, allocVars, mulVars, layVars, echVars>>

(***************************************************************************)
(* Bounds of the model.                                                    *)
(***************************************************************************)
NRows == 3
NWords == 2

(***************************************************************************)
(* misc.h: words and word primitives.                                      *)
(***************************************************************************)
m4ri_radix == 64

m4ri_one == {0}

m4ri_ffff == 0 .. (m4ri_radix - 1)

\* C operators on uint64_t; shift amounts must lie in 0..63 (else undefined).
XOR(a, b) == (a \ b) \cup (b \ a)

AND(a, b) == a \cap b

OR(a, b) == a \cup b

NOT(a) == m4ri_ffff \ a

SHL(a, s) == {b + s : b \in {x \in a : x + s < m4ri_radix}}

SHR(a, s) == {b - s : b \in {x \in a : x >= s}}

\* -__M4RI_CONVERT_TO_WORD(value): two's complement negation of 0 or 1.
NEG(value) == IF value = 0 THEN {} ELSE m4ri_ffff

__M4RI_GET_BIT(w, spot) == IF AND(SHR(w, spot), m4ri_one) = {} THEN 0 ELSE 1

__M4RI_WRITE_BIT_clobber(w, spot, value) == OR(w, AND(NEG(value), SHL(m4ri_one, spot)))

__M4RI_WRITE_BIT(w, spot, value) ==
  OR(AND(w, NOT(SHL(m4ri_one, spot))), AND(NEG(value), SHL(m4ri_one, spot)))

\* A plausible slip: the shift amount is not reduced modulo m4ri_radix.
__M4RI_LEFT_BITMASK_nomod(n) == SHR(m4ri_ffff, m4ri_radix - n)

__M4RI_LEFT_BITMASK(n) == SHR(m4ri_ffff, (m4ri_radix - n) % m4ri_radix)

__M4RI_RIGHT_BITMASK(n) == SHL(m4ri_ffff, m4ri_radix - n)

(***************************************************************************)
(* packedmatrix.h: bit accessors.                                          *)
(***************************************************************************)
\* M->rows[row][k] = v
Store(rws, row, k, v) == [rws EXCEPT ![row][k] = v]

mzd_read_bit(Mx, rws, row, col) ==
  __M4RI_GET_BIT(rws[row][(col + Mx.offset) \div m4ri_radix],
                 (col + Mx.offset) % m4ri_radix)

mzd_write_bit(Mx, rws, row, col, value) ==
  LET k == (col + Mx.offset) \div m4ri_radix
  IN  Store(rws, row, k,
            __M4RI_WRITE_BIT(rws[row][k], (col + Mx.offset) % m4ri_radix, value))

(***************************************************************************)
(* packedmatrix.h: reading and updating a range of n bits of a row.        *)
(***************************************************************************)
\* A plausible slip: the word after the boundary is never loaded.
mzd_read_bits_oneword(Mx, rws, x, y, n) ==
  LET spot  == (y + Mx.offset) % m4ri_radix
      block == (y + Mx.offset) \div m4ri_radix
      spill == spot + n - m4ri_radix
      temp  == IF spill <= 0 THEN SHL(rws[x][block], -spill)
                             ELSE SHR(rws[x][block], spill)
  IN  SHR(temp, m4ri_radix - n)

mzd_read_bits(Mx, rws, x, y, n) ==
  LET spot  == (y + Mx.offset) % m4ri_radix
      block == (y + Mx.offset) \div m4ri_radix
      spill == spot + n - m4ri_radix
      temp  == IF spill <= 0
                 THEN SHL(rws[x][block], -spill)
                 ELSE OR(SHL(rws[x][block + 1], m4ri_radix - spill),
                         SHR(rws[x][block], spill))
  IN  SHR(temp, m4ri_radix - n)

mzd_xor_bits(Mx, rws, x, y, n, vals) ==
  LET spot  == (y + Mx.offset) % m4ri_radix
      block == (y + Mx.offset) \div m4ri_radix
      rws1  == Store(rws, x, block, XOR(rws[x][block], SHL(vals, spot)))
      space == m4ri_radix - spot
  IN  IF n > space
        THEN Store(rws1, x, block + 1, XOR(rws1[x][block + 1], SHR(vals, space)))
        ELSE rws1

mzd_and_bits(Mx, rws, x, y, n, vals) ==
  LET vals1 == SHR(vals, m4ri_radix - n)
      spot  == (y + Mx.offset) % m4ri_radix
      block == (y + Mx.offset) \div m4ri_radix
      rws1  == Store(rws, x, block, AND(rws[x][block], SHL(vals1, spot)))
      space == m4ri_radix - spot
  IN  IF n > space
        THEN Store(rws1, x, block + 1, AND(rws1[x][block + 1], SHR(vals1, space)))
        ELSE rws1

\* A plausible slip: the bits that spill into the next word are not cleared.
mzd_clear_bits_nospill(Mx, rws, x, y, n) ==
  LET vals  == SHR(m4ri_ffff, m4ri_radix - n)
      spot  == (y + Mx.offset) % m4ri_radix
      block == (y + Mx.offset) \div m4ri_radix
  IN  Store(rws, x, block, AND(rws[x][block], NOT(SHL(vals, spot))))

mzd_clear_bits(Mx, rws, x, y, n) ==
  LET vals  == SHR(m4ri_ffff, m4ri_radix - n)
      spot  == (y + Mx.offset) % m4ri_radix
      block == (y + Mx.offset) \div m4ri_radix
      rws1  == Store(rws, x, block, AND(rws[x][block], NOT(SHL(vals, spot))))
      space == m4ri_radix - spot
  IN  IF n > space
        THEN Store(rws1, x, block + 1, AND(rws1[x][block + 1], NOT(SHR(vals, space))))
        ELSE rws1

(***************************************************************************)
(* packedmatrix.h: row swaps.                                              *)
(***************************************************************************)
\* A plausible slip: the tail word is swapped whole, without mask_end.
_mzd_row_swap_nomask(Mx, rws, rowa, rowb, startblock) ==
  IF rowa = rowb \/ startblock >= Mx.width
    THEN rws
    ELSE LET width == Mx.width - startblock - 1
             a     == rws[rowa]
             b     == rws[rowb]
             na    == [k \in DOMAIN a |->
                         IF startblock <= k /\ k <= startblock + width THEN b[k] ELSE a[k]]
             nb    == [k \in DOMAIN b |->
                         IF startblock <= k /\ k <= startblock + width THEN a[k] ELSE b[k]]
         IN  [rws EXCEPT ![rowa] = na, ![rowb] = nb]

\* Requires M->offset == 0 (asserted in the code).
_mzd_row_swap(Mx, rws, rowa, rowb, startblock) ==
  IF rowa = rowb \/ startblock >= Mx.width
    THEN rws
    ELSE LET width    == Mx.width - startblock - 1
             a        == rws[rowa]
             b        == rws[rowb]
             mask_end == __M4RI_LEFT_BITMASK((Mx.ncols + Mx.offset) % m4ri_radix)
             last     == startblock + width
             tmp      == AND(XOR(a[last], b[last]), mask_end)
             na       == [k \in DOMAIN a |->
                            IF startblock <= k /\ k < last THEN b[k]
                            ELSE IF k = last THEN XOR(a[k], tmp)
                            ELSE a[k]]
             nb       == [k \in DOMAIN b |->
                            IF startblock <= k /\ k < last THEN a[k]
                            ELSE IF k = last THEN XOR(b[k], tmp)
                            ELSE b[k]]
         IN  [rws EXCEPT ![rowa] = na, ![rowb] = nb]

\* A plausible slip: the first word is swapped whole, without mask_begin.
mzd_row_swap_nomask(Mx, rws, rowa, rowb) ==
  IF rowa = rowb
    THEN rws
    ELSE LET width    == Mx.width - 1
             a        == rws[rowa]
             b        == rws[rowb]
             mask_end == __M4RI_LEFT_BITMASK((Mx.ncols + Mx.offset) % m4ri_radix)
             tmp0     == XOR(a[0], b[0])
             tmpw     == AND(XOR(a[width], b[width]), mask_end)
             tmp1     == AND(tmp0, mask_end)
             na       == [k \in DOMAIN a |->
                            IF width # 0
                              THEN IF k = 0 THEN XOR(a[0], tmp0)
                                   ELSE IF k < width THEN b[k]
                                   ELSE IF k = width THEN XOR(a[k], tmpw)
                                   ELSE a[k]
                              ELSE IF k = 0 THEN XOR(a[0], tmp1) ELSE a[k]]
             nb       == [k \in DOMAIN b |->
                            IF width # 0
                              THEN IF k = 0 THEN XOR(b[0], tmp0)
                                   ELSE IF k < width THEN a[k]
                                   ELSE IF k = width THEN XOR(b[k], tmpw)
                                   ELSE b[k]
                              ELSE IF k = 0 THEN XOR(b[0], tmp1) ELSE b[k]]
         IN  [rws EXCEPT ![rowa] = na, ![rowb] = nb]

mzd_row_swap(Mx, rws, rowa, rowb) ==
  IF rowa = rowb
    THEN rws
    ELSE LET width      == Mx.width - 1
             a          == rws[rowa]
             b          == rws[rowb]
             mask_begin == __M4RI_RIGHT_BITMASK(m4ri_radix - Mx.offset)
             mask_end   == __M4RI_LEFT_BITMASK((Mx.ncols + Mx.offset) % m4ri_radix)
             tmp0       == AND(XOR(a[0], b[0]), mask_begin)
             tmpw       == AND(XOR(a[width], b[width]), mask_end)
             tmp1       == AND(tmp0, mask_end)
             na         == [k \in DOMAIN a |->
                              IF width # 0
                                THEN IF k = 0 THEN XOR(a[0], tmp0)
                                     ELSE IF k < width THEN b[k]
                                     ELSE IF k = width THEN XOR(a[k], tmpw)
                                     ELSE a[k]
                                ELSE IF k = 0 THEN XOR(a[0], tmp1) ELSE a[k]]
             nb         == [k \in DOMAIN b |->
                              IF width # 0
                                THEN IF k = 0 THEN XOR(b[0], tmp0)
                                     ELSE IF k < width THEN a[k]
                                     ELSE IF k = width THEN XOR(b[k], tmpw)
                                     ELSE b[k]
                                ELSE IF k = 0 THEN XOR(b[0], tmp1) ELSE b[k]]
         IN  [rws EXCEPT ![rowa] = na, ![rowb] = nb]

(***************************************************************************)
(* packedmatrix.h: row addition from a start column (portable word loop).  *)
(***************************************************************************)
\* wi_t i = -1; while (++i < wide) dst[i] ^= src[i];   dst, src at word `base`.
\* Each step reads the current storage: dstrow and srcrow may be the same row.
RECURSIVE RowAddWords(_, _, _, _, _, _)
RowAddWords(rws, dstrow, srcrow, base, i, wide) ==
  IF i < wide
    THEN RowAddWords(Store(rws, dstrow, base + i,
                           XOR(rws[dstrow][base + i], rws[srcrow][base + i])),
                     dstrow, srcrow, base, i + 1, wide)
    ELSE rws

\* A plausible slip: the first word is added whole, without mask_begin.
mzd_row_add_offset_nomask(Mx, rws, dstrow, srcrow, coloffset0) ==
  LET coloffset  == coloffset0 + Mx.offset
      startblock == coloffset \div m4ri_radix
      wide       == Mx.width - startblock - 1
      mask_end   == __M4RI_LEFT_BITMASK((Mx.ncols + Mx.offset) % m4ri_radix)
      rws1       == Store(rws, dstrow, startblock,
                          XOR(rws[dstrow][startblock], rws[srcrow][startblock]))
      rws2       == RowAddWords(rws1, dstrow, srcrow, startblock + 1, 0, wide)
      last       == startblock + wide
  IN  Store(rws2, dstrow, last,
            XOR(rws2[dstrow][last], AND(rws2[srcrow][last], NOT(mask_end))))

mzd_row_add_offset(Mx, rws, dstrow, srcrow, coloffset0) ==
  LET coloffset  == coloffset0 + Mx.offset
      startblock == coloffset \div m4ri_radix
      \* wide = M->width - startblock, then --wide after the first word
      wide       == Mx.width - startblock - 1
      mask_begin == __M4RI_RIGHT_BITMASK(m4ri_radix - (coloffset % m4ri_radix))
      mask_end   == __M4RI_LEFT_BITMASK((Mx.ncols + Mx.offset) % m4ri_radix)
      rws1       == Store(rws, dstrow, startblock,
                          XOR(rws[dstrow][startblock],
                              AND(rws[srcrow][startblock], mask_begin)))
      rws2       == RowAddWords(rws1, dstrow, srcrow, startblock + 1, 0, wide)
      \* dst[i - 1] with i == wide: the word M->width - 1 of the row
      last       == startblock + wide
  IN  Store(rws2, dstrow, last,
            XOR(rws2[dstrow][last], AND(rws2[srcrow][last], NOT(mask_end))))

(***************************************************************************)
(* packedmatrix.h: column swap in a range of rows.                         *)
(***************************************************************************)
\* A plausible slip: in the two-word case the XOR bit is not moved back to
\* column a's position.
mzd_col_swap_in_rows_noshift(Mx, rws, cola, colb, start_row, stop_row) ==
  IF cola = colb
    THEN rws
    ELSE LET _cola    == cola + Mx.offset
             _colb    == colb + Mx.offset
             swap_a_b == (_cola % m4ri_radix) < (_colb % m4ri_radix)
             a_spill  == IF swap_a_b THEN _colb % m4ri_radix ELSE _cola % m4ri_radix
             b_spill  == IF swap_a_b THEN _cola % m4ri_radix ELSE _colb % m4ri_radix
             a_word   == IF swap_a_b THEN _colb \div m4ri_radix ELSE _cola \div m4ri_radix
             b_word   == IF swap_a_b THEN _cola \div m4ri_radix ELSE _colb \div m4ri_radix
             b_bm     == SHL(m4ri_one, b_spill)
             coldiff  == a_spill - b_spill
             SameWord(row) ==
               LET v == row[a_word]
                   x == AND(XOR(SHR(v, coldiff), v), b_bm)
                   y == OR(x, SHL(x, coldiff))
               IN  [row EXCEPT ![a_word] = XOR(v, y)]
             TwoWords(row) ==
               LET a == row[a_word]
                   b == row[b_word]
                   x == AND(XOR(SHR(a, coldiff), b), b_bm)
               IN  [row EXCEPT ![b_word] = XOR(b, x), ![a_word] = XOR(a, x)]
         IN  [i \in DOMAIN rws |->
                IF start_row <= i /\ i < stop_row
                  THEN IF a_word = b_word THEN SameWord(rws[i]) ELSE TwoWords(rws[i])
                  ELSE rws[i]]

mzd_col_swap_in_rows(Mx, rws, cola, colb, start_row, stop_row) ==
  IF cola = colb
    THEN rws
    ELSE LET _cola    == cola + Mx.offset
             _colb    == colb + Mx.offset
             \* Make sure that a_spill >= b_spill (larger if a_word == b_word)
             swap_a_b == (_cola % m4ri_radix) < (_colb % m4ri_radix)
             a_spill  == IF swap_a_b THEN _colb % m4ri_radix ELSE _cola % m4ri_radix
             b_spill  == IF swap_a_b THEN _cola % m4ri_radix ELSE _colb % m4ri_radix
             a_word   == IF swap_a_b THEN _colb \div m4ri_radix ELSE _cola \div m4ri_radix
             b_word   == IF swap_a_b THEN _cola \div m4ri_radix ELSE _colb \div m4ri_radix
             b_bm     == SHL(m4ri_one, b_spill)
             coldiff  == a_spill - b_spill
             SameWord(row) ==
               LET v == row[a_word]
                   x == AND(XOR(SHR(v, coldiff), v), b_bm)
                   y == OR(x, SHL(x, coldiff))
               IN  [row EXCEPT ![a_word] = XOR(v, y)]
             TwoWords(row) ==
               LET a == row[a_word]
                   b == row[b_word]
                   x == AND(XOR(SHR(a, coldiff), b), b_bm)
               IN  [row EXCEPT ![b_word] = XOR(b, x),
                               ![a_word] = XOR(a, SHL(x, coldiff))]
         IN  [i \in DOMAIN rws |->
                IF start_row <= i /\ i < stop_row
                  THEN IF a_word = b_word THEN SameWord(rws[i]) ELSE TwoWords(rws[i])
                  ELSE rws[i]]

(***************************************************************************)
(* packedmatrix.h: row combination for differing column offsets.           *)
(* A and B are records [M |-> descriptor, rows |-> storage].               *)
(***************************************************************************)
\* for(; i + m4ri_radix <= A->ncols; i += m4ri_radix) { ... }  if(A->ncols - i) { ... }
RECURSIVE CombineWeirdFrom(_, _, _, _, _, _, _, _)
CombineWeirdFrom(C, crws, c_row, A, a_row, B, b_row, i) ==
  IF i + m4ri_radix <= A.M.ncols
    THEN LET tmp == XOR(mzd_read_bits(A.M, A.rows, a_row, i, m4ri_radix),
                        mzd_read_bits(B.M, B.rows, b_row, i, m4ri_radix))
             r1  == mzd_clear_bits(C, crws, c_row, i, m4ri_radix)
             r2  == mzd_xor_bits(C, r1, c_row, i, m4ri_radix, tmp)
         IN  CombineWeirdFrom(C, r2, c_row, A, a_row, B, b_row, i + m4ri_radix)
    ELSE IF A.M.ncols - i # 0
      THEN LET tmp == XOR(mzd_read_bits(A.M, A.rows, a_row, i, A.M.ncols - i),
                          mzd_read_bits(B.M, B.rows, b_row, i, B.M.ncols - i))
               r1  == mzd_clear_bits(C, crws, c_row, i, C.ncols - i)
           IN  mzd_xor_bits(C, r1, c_row, i, C.ncols - i, tmp)
      ELSE crws

\* The three start blocks are parameters the body never reads: i starts at 0.
mzd_combine_weird(C, crws, c_row, c_startblock, A, a_row, a_startblock, B, b_row, b_startblock) ==
  CombineWeirdFrom(C, crws, c_row, A, a_row, B, b_row, 0)

(***************************************************************************)
(* packedmatrix.h: row combination by whole words ("for offset 0").        *)
(***************************************************************************)
\* The variant that stores the last word whole instead of under the mask.
mzd_combine_even_nomask(C, crws, c_row, c_startblock, A, a_row, a_startblock, B, b_row, b_startblock) ==
  LET wide == A.M.width - a_startblock - 1
      a(i) == A.rows[a_row][a_startblock + i]
      b(i) == B.rows[b_row][b_startblock + i]
  IN  [crws EXCEPT ![c_row] =
         [k \in DOMAIN crws[c_row] |->
            IF c_startblock <= k /\ k <= c_startblock + wide
              THEN XOR(a(k - c_startblock), b(k - c_startblock))
              ELSE crws[c_row][k]]]

\* wide = A->width - a_startblock - 1;  wide times *(c++) = *(a++) ^ *(b++);
\* *c ^= ((*a ^ *b ^ *c) & __M4RI_LEFT_BITMASK(C->ncols % m4ri_radix));
mzd_combine_even(C, crws, c_row, c_startblock, A, a_row, a_startblock, B, b_row, b_startblock) ==
  LET wide == A.M.width - a_startblock - 1
      a(i) == A.rows[a_row][a_startblock + i]
      b(i) == B.rows[b_row][b_startblock + i]
      mask == __M4RI_LEFT_BITMASK(C.ncols % m4ri_radix)
  IN  [crws EXCEPT ![c_row] =
         [k \in DOMAIN crws[c_row] |->
            IF c_startblock <= k /\ k < c_startblock + wide
              THEN XOR(a(k - c_startblock), b(k - c_startblock))
              ELSE IF k = c_startblock + wide
                THEN XOR(crws[c_row][k],
                         AND(XOR(XOR(a(wide), b(wide)), crws[c_row][k]), mask))
                ELSE crws[c_row][k]]]

\* A plausible slip: the last word is added whole, without the mask.
mzd_combine_even_in_place_nomask(A, arws, a_row, a_startblock, B, b_row, b_startblock) ==
  LET wide == A.width - a_startblock - 1
      b(i) == B.rows[b_row][b_startblock + i]
  IN  [arws EXCEPT ![a_row] =
         [k \in DOMAIN arws[a_row] |->
            IF a_startblock <= k /\ k <= a_startblock + wide
              THEN XOR(arws[a_row][k], b(k - a_startblock))
              ELSE arws[a_row][k]]]

\* wide = A->width - a_startblock - 1;  wide times *(a++) ^= *(b++);
\* *a ^= *b & __M4RI_LEFT_BITMASK(A->ncols % m4ri_radix);
\* A is the descriptor of the destination and arws its storage.
mzd_combine_even_in_place(A, arws, a_row, a_startblock, B, b_row, b_startblock) ==
  LET wide == A.width - a_startblock - 1
      b(i) == B.rows[b_row][b_startblock + i]
      mask == __M4RI_LEFT_BITMASK(A.ncols % m4ri_radix)
  IN  [arws EXCEPT ![a_row] =
         [k \in DOMAIN arws[a_row] |->
            IF a_startblock <= k /\ k < a_startblock + wide
              THEN XOR(arws[a_row][k], b(k - a_startblock))
              ELSE IF k = a_startblock + wide
                THEN XOR(arws[a_row][k], AND(b(wide), mask))
                ELSE arws[a_row][k]]]

(***************************************************************************)
(* Inputs: matrices and windows filled with pseudo-random bits.            *)
(***************************************************************************)
RowIdx == 0 .. (NRows - 1)

WordIdx == 0 .. (NWords - 1)

Seeds == {0, 1}

OffsetSamples == {0, 1, 37, 63}

EndSamples == {e \in 1 .. (m4ri_radix * NWords) : e % m4ri_radix \in {0, 1, 38, 63}}

RandWord(seed, i, k) ==
  {b \in m4ri_ffff :
     (b * b * (seed + 1) + b * (i + 2) + 3 * k + (b \div 5) * (k + 1) + seed + i) % 7 < 3}

RandRows(seed) == [i \in RowIdx |-> [k \in WordIdx |-> RandWord(seed, i, k)]]

\* The storage of the source operands of a row combination.
OperandRowsA == RandRows(2)

OperandRowsB == RandRows(3)

\* width = ceil((ncols + offset) / m4ri_radix)
Descriptor(off, nc) ==
  [nrows |-> NRows, ncols |-> nc, offset |-> off,
   width |-> (nc + off + m4ri_radix - 1) \div m4ri_radix]

Descriptors ==
  {Descriptor(d[1], d[2] - d[1]) :
     d \in {x \in OffsetSamples \X EndSamples : x[2] > x[1]}}

\* Columns near the ends of the logical span and near the word boundaries.
ColSamples(Mx) ==
  {c \in 0 .. (Mx.ncols - 1) :
     \/ c \in {0, 1, Mx.ncols - 1}
     \/ (c + Mx.offset) % m4ri_radix \in {0, 38, 63}}

NSamples == {1, 2, 27, 63, 64}

\* The ranges [y, y + n) of a row: 1 <= n <= 64 and y + n <= ncols.
BitRanges(Mx) ==
  {yn \in ColSamples(Mx) \X NSamples : yn[1] + yn[2] <= Mx.ncols}

\* Words handed to xor_bits / and_bits: all ones, a mixed word, the two end
\* bits, the lowest bit alone.
ValueSamples == {m4ri_ffff, RandWord(5, 1, 0), {0, m4ri_radix - 1}, {0}}

\* Columns for the column swap: the ends of the span and both sides of a boundary.
SwapColSamples(Mx) ==
  {c \in 0 .. (Mx.ncols - 1) :
     \/ c \in {0, Mx.ncols - 1}
     \/ (c + Mx.offset) % m4ri_radix \in {0, 63}
     \/ c + Mx.offset = 38}

StartSamples == {0, 1}

\* Offsets of the operands A and B that fit the storage and make the case "weird".
WeirdOffsets(Mx) ==
  {o \in OffsetSamples \X OffsetSamples :
     /\ o[1] + Mx.ncols <= m4ri_radix * NWords
     /\ o[2] + Mx.ncols <= m4ri_radix * NWords
     /\ ~(o[1] = Mx.offset /\ o[2] = Mx.offset)}

\* The codebook as the loader leaves it when the library is not under test.
LifeIdle ==
  /\ codebook = 0
  /\ mem = <<>>
  /\ fault = FALSE
  /\ first = <<>>
  /\ before = <<>>
  /\ ncalls = 0

\* No allocation wrapper has been called.
AllocIdle ==
  /\ raw = <<>>
  /\ bytes = <<>>
  /\ stderr = ""

\* No multiplication test has run.
MulIdle == prod = <<>>

LayIdle == lay = <<>>

EchIdle == ech = <<>>

\* No window is open.
WinIdle ==
  /\ W = <<>>
  /\ calls = 0

\* No Gray code is under construction.
GrayIdle ==
  /\ kay = 0
  /\ ord = <<>>
  /\ inc = <<>>
  /\ Brows = <<>>
  /\ T = <<>>
  /\ step = 0

Init ==
  /\ M \in Descriptors
  /\ \E seed \in Seeds : rows = RandRows(seed)
  /\ old = rows
  /\ pc = "init"
  /\ args = <<>>
  /\ values = {}
  /\ ret = {}
  /\ srcA = [M |-> M, rows |-> OperandRowsA]
  /\ srcB = [M |-> M, rows |-> OperandRowsB]
  /\ WinIdle
  /\ GrayIdle
  /\ LifeIdle
  /\ AllocIdle
  /\ MulIdle /\ LayIdle /\ EchIdle

\* One call of an operation: its name, arguments and result are recorded, and
\* old keeps the storage the call started from.
Call(name, a, v, r, newrows) ==
  /\ pc' = name
  /\ args' = a
  /\ values' = v
  /\ ret' = r
  /\ old' = rows
  /\ rows' = newrows
  /\ UNCHANGED <<M, winVars, grayVars, lifeVars, allocVars, mulVars, layVars, echVars>>

WriteBit ==
  /\ pc = "init"
  /\ \E row \in RowIdx, col \in ColSamples(M), value \in {0, 1} :
       /\ Call("write_bit", <<row, col, value>>, {}, {}, mzd_write_bit(M, rows, row, col, value))
       /\ UNCHANGED <<srcA, srcB>>

ReadBits ==
  /\ pc = "init"
  /\ \E x \in RowIdx, yn \in BitRanges(M) :
       /\ Call("read_bits", <<x, yn[1], yn[2]>>, {},
               mzd_read_bits(M, rows, x, yn[1], yn[2]), rows)
       /\ UNCHANGED <<srcA, srcB>>

XorBits ==
  /\ pc = "init"
  /\ \E x \in RowIdx, yn \in BitRanges(M), v \in ValueSamples :
       /\ Call("xor_bits", <<x, yn[1], yn[2]>>, v, {},
               mzd_xor_bits(M, rows, x, yn[1], yn[2], v))
       /\ UNCHANGED <<srcA, srcB>>

AndBits ==
  /\ pc = "init"
  /\ \E x \in RowIdx, yn \in BitRanges(M), v \in ValueSamples :
       /\ Call("and_bits", <<x, yn[1], yn[2]>>, v, {},
               mzd_and_bits(M, rows, x, yn[1], yn[2], v))
       /\ UNCHANGED <<srcA, srcB>>

ClearBits ==
  /\ pc = "init"
  /\ \E x \in RowIdx, yn \in BitRanges(M) :
       /\ Call("clear_bits", <<x, yn[1], yn[2]>>, {}, {},
               mzd_clear_bits(M, rows, x, yn[1], yn[2]))
       /\ UNCHANGED <<srcA, srcB>>

RowSwap ==
  /\ pc = "init"
  /\ \E rowa \in RowIdx, rowb \in RowIdx :
       /\ Call("row_swap", <<rowa, rowb>>, {}, {}, mzd_row_swap(M, rows, rowa, rowb))
       /\ UNCHANGED <<srcA, srcB>>

\* _mzd_row_swap asserts M->offset == 0; startblock may lie at or past M->width.
RowSwapFrom ==
  /\ pc = "init"
  /\ M.offset = 0
  /\ \E rowa \in RowIdx, rowb \in RowIdx, startblock \in 0 .. NWords :
       /\ Call("_row_swap", <<rowa, rowb, startblock>>, {}, {},
               _mzd_row_swap(M, rows, rowa, rowb, startblock))
       /\ UNCHANGED <<srcA, srcB>>

\* assert(dstrow < M->nrows && srcrow < M->nrows && coloffset < M->ncols)
RowAddOffset ==
  /\ pc = "init"
  /\ \E dstrow \in RowIdx, srcrow \in RowIdx, coloffset \in ColSamples(M) :
       /\ Call("row_add_offset", <<dstrow, srcrow, coloffset>>, {}, {},
               mzd_row_add_offset(M, rows, dstrow, srcrow, coloffset))
       /\ UNCHANGED <<srcA, srcB>>

ColSwapInRows ==
  /\ pc = "init"
  /\ \E cola \in SwapColSamples(M), colb \in SwapColSamples(M),
        start_row \in 0 .. NRows :
       \E stop_row \in start_row .. NRows :
         /\ Call("col_swap_in_rows", <<cola, colb, start_row, stop_row>>, {}, {},
                 mzd_col_swap_in_rows(M, rows, cola, colb, start_row, stop_row))
         /\ UNCHANGED <<srcA, srcB>>

\* The "weird" case: A and B have DST's ncols, and the three offsets are not all equal.
\* Each start block is a word of its row.
CombineWeird ==
  /\ pc = "init"
  /\ \E c_row \in RowIdx, sb \in StartSamples \X StartSamples \X StartSamples,
        offs \in WeirdOffsets(M) :
       LET a_row == (c_row + 1) % NRows
           b_row == NRows - 1 - c_row
           A     == [M |-> Descriptor(offs[1], M.ncols), rows |-> OperandRowsA]
           B     == [M |-> Descriptor(offs[2], M.ncols), rows |-> OperandRowsB]
       IN  /\ sb[1] < M.width /\ sb[2] < A.M.width /\ sb[3] < B.M.width
           /\ Call("combine_weird", <<c_row, sb[1], a_row, sb[2], b_row, sb[3]>>, {}, {},
                   mzd_combine_weird(M, rows, c_row, sb[1], A, a_row, sb[2], B, b_row, sb[3]))
           /\ srcA' = A
           /\ srcB' = B

\* The "even" case: A and B have DST's offset and ncols; one start word for all three.
CombineEven ==
  /\ pc = "init"
  /\ \E c_row \in RowIdx, s \in StartSamples :
       LET a_row == (c_row + 1) % NRows
           b_row == NRows - 1 - c_row
           A     == [M |-> M, rows |-> OperandRowsA]
           B     == [M |-> M, rows |-> OperandRowsB]
       IN  /\ s < M.width
           /\ Call("combine_even", <<c_row, s, a_row, s, b_row, s>>, {}, {},
                   mzd_combine_even(M, rows, c_row, s, A, a_row, s, B, b_row, s))
           /\ srcA' = A
           /\ srcB' = B

\* The destination is A itself; B is another matrix of A's shape, or A again
\* (then b_row may be the destination row).
CombineEvenInPlace ==
  /\ pc = "init"
  /\ \E a_row \in RowIdx, b_row \in RowIdx, s \in StartSamples,
        brows \in {OperandRowsB, rows} :
       LET A == [M |-> M, rows |-> rows]
           B == [M |-> M, rows |-> brows]
       IN  /\ s < M.width
           /\ Call("combine_even_in_place", <<a_row, s, b_row, s>>, {}, {},
                   mzd_combine_even_in_place(M, rows, a_row, s, B, b_row, s))
           /\ srcA' = A
           /\ srcB' = B

Next ==
  \/ WriteBit
  \/ ReadBits
  \/ XorBits
  \/ AndBits
  \/ ClearBits
  \/ RowSwap
  \/ RowSwapFrom
  \/ RowAddOffset
  \/ ColSwapInRows
  \/ CombineWeird
  \/ CombineEven
  \/ CombineEvenInPlace

Spec == Init /\ [][Next]_vars

(***************************************************************************)
(* packedmatrix.h: the words a row swap reads or writes, as indices from   *)
(* the row pointer.  A matrix may have no column at all, and then no word. *)
(***************************************************************************)
\* a[0] and b[0] are read first; then a[0], the loop i = 1 .. width-1 and
\* a[width] when width != 0, else a[0] again (width is M->width - 1).
mzd_row_swap_words(Mx, rowa, rowb) ==
  IF rowa = rowb
    THEN {}
    ELSE LET width == Mx.width - 1
         IN  {0} \cup (IF width # 0 THEN (1 .. (width - 1)) \cup {width} ELSE {0})

\* a = M->rows[rowa] + startblock: the loop i = 0 .. width-1 and a[width]
\* (width is M->width - startblock - 1).
_mzd_row_swap_words(Mx, rowa, rowb, startblock) ==
  IF rowa = rowb \/ startblock >= Mx.width
    THEN {}
    ELSE LET width == Mx.width - startblock - 1
         IN  {startblock + i : i \in 0 .. width}

EmptyDescriptors == {Descriptor(0, 0)}

SwapInit ==
  /\ M \in Descriptors \cup EmptyDescriptors
  /\ \E seed \in Seeds : rows = RandRows(seed)
  /\ old = rows
  /\ pc = "init"
  /\ args = <<>>
  /\ values = {}
  /\ ret = {}
  /\ srcA = [M |-> M, rows |-> OperandRowsA]
  /\ srcB = [M |-> M, rows |-> OperandRowsB]
  /\ WinIdle /\ GrayIdle /\ LifeIdle /\ AllocIdle /\ MulIdle /\ LayIdle /\ EchIdle

\* An access outside the row is undefined: the call may leave the rows alone or
\* exchange the words next to them (word 0 of the storage, past the empty row).
RowSwapOutcomes(Mx, rws, rowa, rowb) ==
  IF mzd_row_swap_words(Mx, rowa, rowb) \subseteq 0 .. (Mx.width - 1)
    THEN {mzd_row_swap(Mx, rws, rowa, rowb)}
    ELSE {rws, [rws EXCEPT ![rowa][0] = rws[rowb][0], ![rowb][0] = rws[rowa][0]]}

RowSwapWords ==
  /\ pc = "init"
  /\ \E rowa \in RowIdx, rowb \in RowIdx :
       \E out \in RowSwapOutcomes(M, rows, rowa, rowb) :
         /\ Call("row_swap words", <<rowa, rowb>>, {}, mzd_row_swap_words(M, rowa, rowb), out)
         /\ UNCHANGED <<srcA, srcB>>

RowSwapFromWords ==
  /\ pc = "init"
  /\ M.offset = 0
  /\ \E rowa \in RowIdx, rowb \in RowIdx, startblock \in 0 .. NWords :
       /\ Call("_row_swap words", <<rowa, rowb, startblock>>, {},
               _mzd_row_swap_words(M, rowa, rowb, startblock),
               _mzd_row_swap(M, rows, rowa, rowb, startblock))
       /\ UNCHANGED <<srcA, srcB>>

SwapNext == RowSwapWords \/ RowSwapFromWords

SwapSpec == SwapInit /\ [][SwapNext]_vars

(***************************************************************************)
(* packedmatrix.h: windows.  A window borrows the parent's storage: its    *)
(* row pointer i is the parent's row pointer lowr + i advanced by word0    *)
(* words, and its offset is the position of its column 0 in that word.     *)
(***************************************************************************)
mzd_init_window(Mx, lowr, lowc, highr, highc) ==
  [nrows  |-> highr - lowr,
   ncols  |-> highc - lowc,
   offset |-> (Mx.offset + lowc) % m4ri_radix,
   width  |-> (((Mx.offset + lowc) % m4ri_radix) + (highc - lowc) + m4ri_radix - 1)
                \div m4ri_radix,
   lowr   |-> lowr,
   lowc   |-> lowc,
   word0  |-> (Mx.offset + lowc) \div m4ri_radix]

\* The words reachable from the window's row pointers, in the parent's storage prows.
WindowRows(Wd, prows) ==
  [i \in 0 .. (Wd.nrows - 1) |->
     [k \in 0 .. (NWords - 1 - Wd.word0) |-> prows[Wd.lowr + i][Wd.word0 + k]]]

\* The parent's storage once the words reachable from the window hold wrows.
ThroughWindow(Wd, prows, wrows) ==
  [r \in DOMAIN prows |->
     [k \in DOMAIN prows[r] |->
        IF Wd.lowr <= r /\ r < Wd.lowr + Wd.nrows /\ k >= Wd.word0
          THEN wrows[r - Wd.lowr][k - Wd.word0]
          ELSE prows[r][k]]]

MaxCalls == 2

\* The parent: an unwindowed matrix that fills its storage.
Parent == Descriptor(0, m4ri_radix * NWords)

WindowWidths == {10, m4ri_radix}

\* Windows at column 0, inside the first word, across the first word boundary and
\* inside the last word; one row in the middle or all rows but the last.
WindowCorners ==
  {c \in {0, 1} \X {0, 7, m4ri_radix * (NWords - 1) + 7} \X {2, NRows - 1} \X WindowWidths :
     /\ c[2] + c[4] <= Parent.ncols
     /\ c[3] = IF c[1] = 1 THEN 2 ELSE NRows - 1}

Windows == {mzd_init_window(Parent, c[1], c[2], c[3], c[2] + c[4]) : c \in WindowCorners}

WinRanges(Wd) == {<<0, IF Wd.ncols < m4ri_radix THEN Wd.ncols ELSE m4ri_radix>>, <<Wd.ncols - 5, 5>>}

WinInit ==
  /\ M = Parent
  /\ \E seed \in Seeds : rows = RandRows(seed)
  /\ old = rows
  /\ pc = "init"
  /\ args = <<>>
  /\ values = {}
  /\ ret = {}
  /\ srcA = [M |-> M, rows |-> OperandRowsA]
  /\ srcB = [M |-> M, rows |-> OperandRowsB]
  /\ W \in Windows
  /\ calls = 0
  /\ GrayIdle
  /\ LifeIdle
  /\ AllocIdle
  /\ MulIdle /\ LayIdle /\ EchIdle

\* One call through the window: wrows is the window's storage after the call.
WinCall(name, a, v, wrows) ==
  /\ pc' = name
  /\ args' = a
  /\ values' = v
  /\ old' = rows
  /\ rows' = ThroughWindow(W, rows, wrows)
  /\ calls' = calls + 1
  /\ UNCHANGED <<M, W, ret, srcA, srcB, grayVars, lifeVars, allocVars, mulVars, layVars, echVars>>

WinWriteBit ==
  /\ calls < MaxCalls
  /\ \E i \in 0 .. (W.nrows - 1), j \in {0, W.ncols - 1}, value \in {0, 1} :
       WinCall("window_write_bit", <<i, j, value>>, {},
               mzd_write_bit(W, WindowRows(W, rows), i, j, value))

WinXorBits ==
  /\ calls < MaxCalls
  /\ \E i \in 0 .. (W.nrows - 1), yn \in WinRanges(W), fit \in BOOLEAN :
       LET v == IF fit THEN AND(RandWord(5, 1, 0), __M4RI_LEFT_BITMASK(yn[2])) ELSE m4ri_ffff
       IN  WinCall("window_xor_bits", <<i, yn[1], yn[2]>>, v,
                   mzd_xor_bits(W, WindowRows(W, rows), i, yn[1], yn[2], v))

WinClearBits ==
  /\ calls < MaxCalls
  /\ \E i \in 0 .. (W.nrows - 1), yn \in WinRanges(W) :
       WinCall("window_clear_bits", <<i, yn[1], yn[2]>>, {},
               mzd_clear_bits(W, WindowRows(W, rows), i, yn[1], yn[2]))

WinNext ==
  \/ WinWriteBit
  \/ WinXorBits
  \/ WinClearBits

WinSpec == WinInit /\ [][WinNext]_vars

\* No matrix operation is under way: the matrix is the parent, untouched.
MatIdle ==
  /\ M = Parent
  /\ rows = RandRows(0)
  /\ old = rows
  /\ values = {}
  /\ srcA = [M |-> M, rows |-> OperandRowsA]
  /\ srcB = [M |-> M, rows |-> OperandRowsB]

(***************************************************************************)
(* grayflex.c: Gray codes.  An int is a number; its bits are read and       *)
(* combined through the set of its set bit positions.                      *)
(***************************************************************************)
MAXKAY == 4

IntBits == 0 .. 30

BitsOf(n) == {b \in IntBits : (n \div (2 ^ b)) % 2 = 1}

RECURSIVE IntOf(_)
IntOf(S) == IF S = {} THEN 0 ELSE LET b == CHOOSE x \in S : TRUE IN (2 ^ b) + IntOf(S \ {b})

IntAnd(x, y) == IntOf(BitsOf(x) \cap BitsOf(y))

IntOr(x, y) == IntOf(BitsOf(x) \cup BitsOf(y))

IntXor(x, y) == IntOf((BitsOf(x) \cup BitsOf(y)) \ (BitsOf(x) \cap BitsOf(y)))

__M4RI_TWOPOW(i) == 2 ^ i

\* for(int i = length - 1; i >= 0; --i) { bit = number & (1 << i); ... }
RECURSIVE GrayLoop(_, _, _, _)
GrayLoop(number, i, lastbit, res) ==
  IF i < 0
    THEN res
    ELSE LET bit == IntAnd(number, 2 ^ i)
         IN  GrayLoop(number, i - 1, bit, IntOr(res, IntXor(lastbit \div 2, bit)))

\* A plausible slip: the bit above is never XORed in, the code is the number.
m4ri_gray_code_noshift(number, length) == number

m4ri_gray_code(number, length) == GrayLoop(number, length - 1, 0, 0)

\* A plausible slip: the loop stops one entry short, the last code is never stored.
BuildOrd_short(ord0, l) ==
  [i \in DOMAIN ord0 |-> IF i < __M4RI_TWOPOW(l) - 1 THEN m4ri_gray_code(i, l) ELSE ord0[i]]

\* for(i = 0; i < TWOPOW(l); ++i) ord[i] = m4ri_gray_code(i, l);
BuildOrd(ord0, l) ==
  [i \in DOMAIN ord0 |-> IF i < __M4RI_TWOPOW(l) THEN m4ri_gray_code(i, l) ELSE ord0[i]]

\* for(i = l; i > 0; --i) for(j = 1; j < TWOPOW(i) + 1; ++j) inc[j * TWOPOW(l - i) - 1] = l - i;
\* (the array holds 2^l entries, so every index written is one of its own)
RECURSIVE IncLoop(_, _, _, _)
IncLoop(inc0, l, i, j) ==
  IF i <= 0
    THEN inc0
    ELSE IF j < __M4RI_TWOPOW(i) + 1
      THEN IF j * __M4RI_TWOPOW(l - i) - 1 \in DOMAIN inc0
        THEN IncLoop([inc0 EXCEPT ![j * __M4RI_TWOPOW(l - i) - 1] = l - i], l, i, j + 1)
        ELSE inc0
      ELSE IncLoop(inc0, l, i - 1, 1)

\* A plausible slip: the index is j * 2^(l-i) instead of j * 2^(l-i) - 1.
BuildInc_shifted(inc0, l) ==
  LET a == IncLoop(inc0, l, l, 1)
  IN  [i \in DOMAIN inc0 |-> IF i = 0 THEN l - 1 ELSE a[i - 1]]

BuildInc(inc0, l) == IncLoop(inc0, l, l, 1)

\* A plausible slip: ord is filled with the index itself.
m4ri_build_code_plain(ord0, inc0, l) ==
  [ord |-> [i \in DOMAIN ord0 |-> i], inc |-> BuildInc(inc0, l)]

m4ri_build_code(ord0, inc0, l) ==
  [ord |-> BuildOrd(ord0, l), inc |-> BuildInc(inc0, l)]

(***************************************************************************)
(* The table of M4RM over the rows B[j .. j + k): T[0] = 0 and one row XOR *)
(* per step of the Gray code walk.  args = <<j, lag>>: the step s reads    *)
(* inc[s - lag].                                                           *)
(***************************************************************************)
\* T[ord[s]] = T[ord[s - 1]] + B[j + inc[s - lag]], for the tables of code and the rows Bx
TableStep(Tx, code, Bx, s, j, lag) ==
  [Tx EXCEPT ![code.ord[s]] = XOR(Tx[code.ord[s - 1]], Bx[j + code.inc[s - lag]])]

MakeTableStep(Tx, s, j, lag) == TableStep(Tx, [ord |-> ord, inc |-> inc], Brows, s, j, lag)

GrayInit ==
  /\ MatIdle
  /\ WinIdle
  /\ LifeIdle
  /\ AllocIdle
  /\ MulIdle /\ LayIdle /\ EchIdle
  /\ ret = {}
  /\ pc = "init"
  /\ kay \in 1 .. MAXKAY
  /\ \E fill \in {0, 9} :
       /\ ord = [i \in 0 .. (__M4RI_TWOPOW(kay) - 1) |-> fill]
       /\ inc = [i \in 0 .. (__M4RI_TWOPOW(kay) - 1) |-> fill]
  /\ \E seed \in Seeds : Brows = [r \in 0 .. kay |-> RandWord(seed, r, 0)]
  /\ args \in {0, 1} \X {0, 1}
  /\ T = [x \in 0 .. (__M4RI_TWOPOW(kay) - 1) |-> {}]
  /\ step = 0

BuildCode ==
  /\ pc = "init"
  /\ LET code == m4ri_build_code(ord, inc, kay)
     IN  /\ ord' = code.ord
         /\ inc' = code.inc
  /\ pc' = "build_code"
  /\ UNCHANGED <<matVars, args, ret, winVars, lifeVars, allocVars, mulVars, layVars, echVars, kay, Brows, T, step>>

MakeTable ==
  /\ pc \in {"build_code", "make_table"}
  /\ step < __M4RI_TWOPOW(kay) - 1
  /\ step' = step + 1
  /\ T' = MakeTableStep(T, step + 1, args[1], args[2])
  /\ pc' = "make_table"
  /\ UNCHANGED <<matVars, args, ret, winVars, lifeVars, allocVars, mulVars, layVars, echVars, kay, ord, inc, Brows>>

GrayNext ==
  \/ BuildCode
  \/ MakeTable

GraySpec == GrayInit /\ [][GrayNext]_vars

(***************************************************************************)
(* grayflex.c: the choice of k.                                            *)
(***************************************************************************)
\* b[] = { 0x2, 0xC, 0xF0, 0xFF00, 0xFFFF0000 } as sets of bit positions
Log2Masks == <<{1}, {2, 3}, 4 .. 7, 8 .. 15, 16 .. 31>>

\* S[] = { 1, 2, 4, 8, 16 }
Log2Shifts == <<1, 2, 4, 8, 16>>

\* for (i = 4; i >= 0; --i) if (v & b[i]) { v >>= S[i]; r |= S[i]; }
RECURSIVE Log2Loop(_, _, _)
Log2Loop(v, r, i) ==
  IF i < 0
    THEN r
    ELSE IF BitsOf(v) \cap Log2Masks[i + 1] # {}
      THEN Log2Loop(v \div (2 ^ Log2Shifts[i + 1]), IntOr(r, Log2Shifts[i + 1]), i - 1)
      ELSE Log2Loop(v, r, i - 1)

\* A plausible slip: the scan starts below the top mask.
log2_floor_low(v) == Log2Loop(v, 0, 3)

log2_floor(v) == Log2Loop(v, 0, 4)

MIN(x, y) == IF x < y THEN x ELSE y

MAX(x, y) == IF x > y THEN x ELSE y

\* (int)(0.75 * x) for an int 0 <= x < 2^29: the product is exact and the cast truncates.
ThreeQuarters(x) == (3 * x) \div 4

m4ri_opt_k(a, b, c) ==
  LET n == MIN(a, b)
  IN  MIN(MAXKAY, MAX(1, ThreeQuarters(1 + log2_floor(n))))

\* Dimensions at and next to the powers of two, up to the largest int.
DimSamples ==
  {2 ^ e : e \in 0 .. 30} \cup {(2 ^ e) - 1 : e \in 1 .. 30} \cup {(2 ^ e) + 1 : e \in 1 .. 29}
    \cup {(2 ^ 30 - 1) + 2 ^ 30}

\* One dimension is a small power of two, the other any sample; c is arbitrary.
OptArgs ==
  LET small == {2 ^ e : e \in 0 .. 8}
      cs    == {0, 1, 2 ^ 20}
  IN  (small \X DimSamples \X cs) \cup (DimSamples \X small \X cs)

OptInit ==
  /\ MatIdle
  /\ WinIdle
  /\ GrayIdle
  /\ LifeIdle
  /\ AllocIdle
  /\ MulIdle /\ LayIdle /\ EchIdle
  /\ pc = "init"
  /\ ret = 0
  /\ args \in OptArgs

OptK ==
  /\ pc = "init"
  /\ pc' = "opt_k"
  /\ ret' = m4ri_opt_k(args[1], args[2], args[3])
  /\ UNCHANGED <<matVars, args, winVars, grayVars, lifeVars, allocVars, mulVars, layVars, echVars>>

Log2Floor ==
  /\ pc = "init"
  /\ pc' = "log2_floor"
  /\ ret' = log2_floor(args[2])
  /\ UNCHANGED <<matVars, args, winVars, grayVars, lifeVars, allocVars, mulVars, layVars, echVars>>

OptNext ==
  \/ OptK
  \/ Log2Floor

OptSpec == OptInit /\ [][OptNext]_vars

(***************************************************************************)
(* grayflex.c, misc.c: the lifetime of the codebook.  The heap mem is the  *)
(* sequence of the blocks allocated so far, a block's address is its       *)
(* index, the null pointer is 0; a freed block stays in mem, not live.     *)
(* st = [codebook, mem, fault]: fault records a free or an access of a     *)
(* block that is not live.                                                 *)
(***************************************************************************)
MaxLifeCalls == 5

\* m4ri_mm_calloc returned: a new live block holding zero; its address is Len of the new mem.
CallocBlock(st, zero) == [st EXCEPT !.mem = Append(@, [live |-> TRUE, data |-> zero])]

Live(st, p) == p \in DOMAIN st.mem /\ st.mem[p].live

\* p[f] = v, or p->f = v
Poke(st, p, f, v) ==
  IF Live(st, p) THEN [st EXCEPT !.mem[p].data[f] = v] ELSE [st EXCEPT !.fault = TRUE]

\* free(condemned): free(NULL) does nothing
m4ri_mm_free(st, condemned) ==
  IF condemned = 0
    THEN st
    ELSE IF Live(st, condemned)
      THEN [st EXCEPT !.mem[condemned].live = FALSE]
      ELSE [st EXCEPT !.fault = TRUE]

\* for(k = 1; k < MAXKAY + 1; ++k) { codebook[k] = calloc; ->ord = calloc; ->inc = calloc; build }
\* (a fault ends the walk: what the program does after it is not defined)
RECURSIVE BuildAllLoop(_, _)
BuildAllLoop(st, k) ==
  IF st.fault \/ k >= MAXKAY + 1
    THEN st
    ELSE LET zeros == [i \in 0 .. (__M4RI_TWOPOW(k) - 1) |-> 0]
             s1    == CallocBlock(st, [ord |-> 0, inc |-> 0])
             c     == Len(s1.mem)
             s2    == Poke(s1, s1.codebook, k, c)
             s3    == CallocBlock(s2, zeros)
             s4    == Poke(s3, c, "ord", Len(s3.mem))
             s5    == CallocBlock(s4, zeros)
             s6    == Poke(s5, c, "inc", Len(s5.mem))
             o     == s6.mem[c].data.ord
             n     == s6.mem[c].data.inc
             code  == m4ri_build_code(s6.mem[o].data, s6.mem[n].data, k)
             s7    == [s6 EXCEPT !.mem[o].data = code.ord, !.mem[n].data = code.inc]
         IN  IF s6.fault THEN s6 ELSE BuildAllLoop(s7, k + 1)

\* A plausible slip: the test "if (codebook) return" is missing.
m4ri_build_all_codes_again(st) ==
  LET s1 == CallocBlock(st, [k \in 0 .. MAXKAY |-> 0])
  IN  BuildAllLoop([s1 EXCEPT !.codebook = Len(s1.mem)], 1)

m4ri_build_all_codes(st) ==
  IF st.codebook # 0
    THEN st
    ELSE LET s1 == CallocBlock(st, [k \in 0 .. MAXKAY |-> 0])
         IN  BuildAllLoop([s1 EXCEPT !.codebook = Len(s1.mem)], 1)

\* for(i = 1; i < MAXKAY + 1; ++i) { free(codebook[i]->inc); free(codebook[i]->ord); free(codebook[i]); }
RECURSIVE DestroyAllLoop(_, _)
DestroyAllLoop(st, i) ==
  IF i >= MAXKAY + 1
    THEN st
    ELSE IF ~Live(st, st.codebook) \/ ~Live(st, st.mem[st.codebook].data[i])
      THEN [st EXCEPT !.fault = TRUE]
      ELSE LET c  == st.mem[st.codebook].data[i]
               s1 == m4ri_mm_free(st, st.mem[c].data.inc)
               s2 == m4ri_mm_free(s1, s1.mem[c].data.ord)
               s3 == m4ri_mm_free(s2, c)
           IN  DestroyAllLoop(s3, i + 1)

\* A plausible slip: the array is freed but codebook is not reset to NULL.
m4ri_destroy_all_codes_dangling(st) ==
  IF st.codebook = 0
    THEN st
    ELSE LET s1 == DestroyAllLoop(st, 1)
         IN  m4ri_mm_free(s1, s1.codebook)

m4ri_destroy_all_codes(st) ==
  IF st.codebook = 0
    THEN st
    ELSE LET s1 == DestroyAllLoop(st, 1)
         IN  [m4ri_mm_free(s1, s1.codebook) EXCEPT !.codebook = 0]

\* The cache of matrix blocks holds no block of the codebook: its cleanup leaves st alone.
m4ri_mmc_cleanup(st) == st

m4ri_init(st) == m4ri_build_all_codes(st)

m4ri_fini(st) == m4ri_destroy_all_codes(m4ri_mmc_cleanup(st))

\* The ord and inc tables reachable from the codebook, for k = 1..MAXKAY.
Tables(st) ==
  [k \in 1 .. MAXKAY |->
     LET c == st.mem[st.codebook].data[k]
     IN  [ord |-> st.mem[st.mem[c].data.ord].data, inc |-> st.mem[st.mem[c].data.inc].data]]

LifeState == [codebook |-> codebook, mem |-> mem, fault |-> fault]

\* The program is loaded: codebook = NULL, nothing allocated.
LifeInit ==
  /\ MatIdle
  /\ WinIdle
  /\ GrayIdle
  /\ LifeIdle
  /\ AllocIdle
  /\ MulIdle /\ LayIdle /\ EchIdle
  /\ pc = "init"
  /\ args = <<>>
  /\ ret = {}

\* One call that returns: st is the state it leaves.
LifeCall(name, st) ==
  /\ pc # "aborted"
  /\ ncalls < MaxLifeCalls
  /\ pc' = name
  /\ codebook' = st.codebook
  /\ mem' = st.mem
  /\ fault' = st.fault
  /\ first' = IF first = <<>> /\ st.codebook # 0 /\ ~st.fault THEN Tables(st) ELSE first
  /\ before' = [pc |-> pc, codebook |-> codebook, mem |-> mem]
  /\ ncalls' = ncalls + 1
  /\ UNCHANGED <<matVars, args, ret, winVars, grayVars, allocVars, mulVars, layVars, echVars>>

M4riInit == LifeCall("m4ri_init", m4ri_init(LifeState))

M4riFini == LifeCall("m4ri_fini", m4ri_fini(LifeState))

BuildAllCodes == LifeCall("m4ri_build_all_codes", m4ri_build_all_codes(LifeState))

DestroyAllCodes == LifeCall("m4ri_destroy_all_codes", m4ri_destroy_all_codes(LifeState))

\* An allocation of a build fails: m4ri_mm_calloc calls m4ri_die, the process aborts.
BuildDies ==
  /\ pc # "aborted"
  /\ ncalls < MaxLifeCalls
  /\ codebook = 0
  /\ pc' = "aborted"
  /\ ncalls' = ncalls + 1
  /\ before' = [pc |-> pc, codebook |-> codebook, mem |-> mem]
  /\ UNCHANGED <<matVars, args, ret, winVars, grayVars, allocVars, mulVars, layVars, echVars, codebook, mem, fault, first>>

LifeNext ==
  \/ M4riInit
  \/ M4riFini
  \/ BuildAllCodes
  \/ DestroyAllCodes
  \/ BuildDies

LifeSpec == LifeInit /\ [][LifeNext]_vars

(***************************************************************************)
(* misc.h, misc.c: the allocation wrappers.  size_t is SizeBits wide; the  *)
(* build is one of three variants (__M4RI_USE_MM_MALLOC,                   *)
(* __M4RI_USE_POSIX_MEMALIGN, or the C library's calloc / malloc).         *)
(* args = <<variant, count, size>>, and the wrapper's name once called.    *)
(***************************************************************************)
SizeBits == 3

\* count * size, computed in size_t
SizeMul(count, size) == (count * size) % (2 ^ SizeBits)

Variants == {"mm_malloc", "posix_memalign", "libc"}

\* Memory that nothing has initialised holds any bytes.
Garbage(n) ==
  {[i \in 1 .. n |-> 0], [i \in 1 .. n |-> 255], [i \in 1 .. n |-> IF i % 2 = 1 THEN 165 ELSE 0]}

\* _mm_malloc(n, 16) and malloc(n): NULL, or a block of n bytes that are not initialised.
RawMalloc(n) ==
  {[error |-> 0, ptr |-> 0, bytes |-> <<>>]} \cup {[error |-> 0, ptr |-> 1, bytes |-> g] : g \in Garbage(n)}

\* posix_memalign(&newthing, 16, n): an error leaves newthing as it was, not initialised.
RawMemalign(n) ==
  {[error |-> 12, ptr |-> p, bytes |-> <<>>] : p \in {0, 7}}
    \cup {[error |-> 0, ptr |-> 1, bytes |-> g] : g \in Garbage(n)}
    \cup (IF n = 0 THEN {[error |-> 0, ptr |-> 0, bytes |-> <<>>]} ELSE {})

\* calloc(count, size): NULL (always when count * size overflows), or a block of zeros.
RawCalloc(count, size) ==
  {[error |-> 0, ptr |-> 0, bytes |-> <<>>]}
    \cup (IF count * size < 2 ^ SizeBits
            THEN {[error |-> 0, ptr |-> 1, bytes |-> [i \in 1 .. (count * size) |-> 0]]}
            ELSE {})

\* vfprintf(stderr, errormessage, lst); abort();
m4ri_die(errormessage) == [aborted |-> TRUE, stderr |-> errormessage, ret |-> 0, bytes |-> <<>>]

\* if (error) newthing = NULL;
Newthing(variant, r) == IF variant = "posix_memalign" /\ r.error # 0 THEN 0 ELSE r.ptr

\* memset(b, 0, n)
Memset0(b, n) == [i \in DOMAIN b |-> IF i <= n THEN 0 ELSE b[i]]

\* A plausible slip: the block of _mm_malloc or posix_memalign is returned as it came.
m4ri_mm_calloc_raw(variant, count, size, r) ==
  IF Newthing(variant, r) = 0
    THEN m4ri_die("m4ri_mm_calloc: calloc returned NULL\n")
    ELSE [aborted |-> FALSE, stderr |-> "", ret |-> Newthing(variant, r), bytes |-> r.bytes]

m4ri_mm_calloc(variant, count, size, r) ==
  IF Newthing(variant, r) = 0
    THEN m4ri_die("m4ri_mm_calloc: calloc returned NULL\n")
    ELSE [aborted |-> FALSE, stderr |-> "", ret |-> Newthing(variant, r),
          bytes |-> IF variant \in {"mm_malloc", "posix_memalign"}
                      THEN Memset0(r.bytes, SizeMul(count, size))
                      ELSE r.bytes]

m4ri_mm_malloc(variant, size, r) ==
  IF Newthing(variant, r) = 0 /\ size > 0
    THEN m4ri_die("m4ri_mm_malloc: malloc returned NULL\n")
    ELSE [aborted |-> FALSE, stderr |-> "", ret |-> Newthing(variant, r), bytes |-> r.bytes]

\* What the allocator under m4ri_mm_calloc / m4ri_mm_malloc may answer.
RawOfCalloc(variant, count, size) ==
  IF variant = "libc" THEN RawCalloc(count, size)
  ELSE IF variant = "posix_memalign" THEN RawMemalign(SizeMul(count, size))
  ELSE RawMalloc(SizeMul(count, size))

RawOfMalloc(variant, size) ==
  IF variant = "posix_memalign" THEN RawMemalign(size) ELSE RawMalloc(size)

AllocInit ==
  /\ MatIdle
  /\ WinIdle
  /\ GrayIdle
  /\ LifeIdle
  /\ AllocIdle
  /\ MulIdle /\ LayIdle /\ EchIdle
  /\ pc = "init"
  /\ ret = 0
  /\ args \in Variants \X (0 .. 4) \X (0 .. 4)

\* The wrapper name returns out, or the process aborts inside it.
AllocCall(name, r, out) ==
  /\ pc' = IF out.aborted THEN "aborted" ELSE "returned"
  /\ args' = Append(args, name)
  /\ raw' = r
  /\ ret' = out.ret
  /\ bytes' = out.bytes
  /\ stderr' = out.stderr
  /\ UNCHANGED <<matVars, winVars, grayVars, lifeVars, mulVars, layVars, echVars>>

MmCalloc ==
  /\ pc = "init"
  /\ \E r \in RawOfCalloc(args[1], args[2], args[3]) :
       AllocCall("m4ri_mm_calloc", r, m4ri_mm_calloc(args[1], args[2], args[3], r))

MmMalloc ==
  /\ pc = "init"
  /\ \E r \in RawOfMalloc(args[1], args[3]) :
       AllocCall("m4ri_mm_malloc", r, m4ri_mm_malloc(args[1], args[3], r))

AllocNext ==
  \/ MmCalloc
  \/ MmMalloc

AllocSpec == AllocInit /\ [][AllocNext]_vars

(***************************************************************************)
(* Multiplication.  Here a matrix is [nrows, ncols, rows] with rows[i] the  *)
(* set of the columns j where entry (i, j) is 1, so a row of any length is *)
(* XORed like a word.  The three algorithms follow the design: cubic,      *)
(* M4RM over the Gray code tables of m4ri_build_code, Strassen-Winograd.   *)
(***************************************************************************)
__M4RI_CPU_L2_CACHE == 524288

mzd_init(r, c) == [nrows |-> r, ncols |-> c, rows |-> [i \in 0 .. (r - 1) |-> {}]]

mzd_randomize(A, seed) ==
  [A EXCEPT !.rows = [i \in 0 .. (A.nrows - 1) |->
     {j \in 0 .. (A.ncols - 1) : (j % m4ri_radix) \in RandWord(seed, i, j \div m4ri_radix)}]]

mzd_copy(A) == A

mzd_equal(A, B) == A.nrows = B.nrows /\ A.ncols = B.ncols /\ A.rows = B.rows

mzd_add(A, B) == [A EXCEPT !.rows = [i \in 0 .. (A.nrows - 1) |-> XOR(A.rows[i], B.rows[i])]]

\* Rows [lowr, highr) and columns [lowc, highc) of A as a matrix of its own.
mzd_submatrix(A, lowr, lowc, highr, highc) ==
  [nrows |-> highr - lowr, ncols |-> highc - lowc,
   rows  |-> [i \in 0 .. (highr - lowr - 1) |->
                {j - lowc : j \in {x \in A.rows[lowr + i] : lowc <= x /\ x < highc}}]]

\* C with the block at (lowr, lowc) replaced by X.
PutBlock(C, lowr, lowc, X) ==
  [C EXCEPT !.rows = [i \in 0 .. (C.nrows - 1) |->
     IF lowr <= i /\ i < lowr + X.nrows
       THEN {j \in C.rows[i] : j < lowc \/ j >= lowc + X.ncols}
              \cup {j + lowc : j \in X.rows[i - lowr]}
       ELSE C.rows[i]]]

\* C[i, j] = sum over t of A[i, t] * B[t, j]
mzd_mul_naive(A, B) ==
  [nrows |-> A.nrows, ncols |-> B.ncols,
   rows  |-> [i \in 0 .. (A.nrows - 1) |->
                {j \in 0 .. (B.ncols - 1) :
                   Cardinality({t \in A.rows[i] : j \in B.rows[t]}) % 2 = 1}]]

\* The tables of the codebook for k, as m4ri_build_all_codes builds them.
Codebook(k) ==
  LET zeros == [i \in 0 .. (__M4RI_TWOPOW(k) - 1) |-> 0]
  IN  m4ri_build_code(zeros, zeros, k)

\* T[0] = 0, then one row XOR per step s = 1 .. 2^k - 1 of the Gray code walk.
RECURSIVE MakeTableFrom(_, _, _, _, _, _)
MakeTableFrom(Tx, code, Bx, j, s, k) ==
  IF s >= __M4RI_TWOPOW(k)
    THEN Tx
    ELSE MakeTableFrom(TableStep(Tx, code, Bx, s, j, 1), code, Bx, j, s + 1, k)

mzd_make_table(Bx, j, k) ==
  MakeTableFrom([x \in 0 .. (__M4RI_TWOPOW(k) - 1) |-> {}], Codebook(k), Bx, j, 1, k)

\* The k bits A[i, j .. j + k) read as an integer.
ReadKey(A, i, j, k) == IntOf({b \in 0 .. (k - 1) : (j + b) \in A.rows[i]})

\* For each block of k columns of A (the last one may be shorter): C[i, :] += T[key].
RECURSIVE M4rmFrom(_, _, _, _, _)
M4rmFrom(C, A, B, k, j) ==
  IF j >= A.ncols
    THEN C
    ELSE LET kk == MIN(k, A.ncols - j)
             Tx == mzd_make_table(B.rows, j, kk)
             C1 == [C EXCEPT !.rows = [i \in 0 .. (C.nrows - 1) |->
                                         XOR(C.rows[i], Tx[ReadKey(A, i, j, kk)])]]
         IN  M4rmFrom(C1, A, B, k, j + kk)

mzd_addmul_m4rm(C, A, B, k) ==
  M4rmFrom(C, A, B, IF k = 0 THEN m4ri_opt_k(A.nrows, A.ncols, B.ncols) ELSE k, 0)

mzd_mul_m4rm(A, B, k) == mzd_addmul_m4rm(mzd_init(A.nrows, B.ncols), A, B, k)

\* floor(sqrt(x))
Isqrt(x) == CHOOSE r \in 0 .. 2048 : r * r <= x /\ x < (r + 1) * (r + 1)

\* cutoff = 0 asks for the default, max(1, sqrt(4 * L2) / 2).
StrassenCutoff(cutoff) ==
  IF cutoff = 0 THEN MAX(1, Isqrt(4 * __M4RI_CPU_L2_CACHE) \div 2) ELSE cutoff

\* C = A * B: M4RM at or below the cutoff; above it the 7 products and 15 block
\* additions of Winograd on the even part, and M4RM on the peeled borders.
RECURSIVE StrassenMul(_, _, _)
StrassenMul(A, B, cutoff) ==
  IF MIN(MIN(A.nrows, A.ncols), B.ncols) <= cutoff
    THEN mzd_mul_m4rm(A, B, 0)
    ELSE LET m   == A.nrows
             l   == A.ncols
             n   == B.ncols
             mh  == m \div 2
             lh  == l \div 2
             nh  == n \div 2
             A11 == mzd_submatrix(A, 0, 0, mh, lh)
             A12 == mzd_submatrix(A, 0, lh, mh, 2 * lh)
             A21 == mzd_submatrix(A, mh, 0, 2 * mh, lh)
             A22 == mzd_submatrix(A, mh, lh, 2 * mh, 2 * lh)
             B11 == mzd_submatrix(B, 0, 0, lh, nh)
             B12 == mzd_submatrix(B, 0, nh, lh, 2 * nh)
             B21 == mzd_submatrix(B, lh, 0, 2 * lh, nh)
             B22 == mzd_submatrix(B, lh, nh, 2 * lh, 2 * nh)
             S1  == mzd_add(A21, A22)
             S2  == mzd_add(S1, A11)
             S3  == mzd_add(A11, A21)
             S4  == mzd_add(A12, S2)
             T1  == mzd_add(B12, B11)
             T2  == mzd_add(B22, T1)
             T3  == mzd_add(B22, B12)
             T4  == mzd_add(T2, B21)
             P1  == StrassenMul(A11, B11, cutoff)
             P2  == StrassenMul(A12, B21, cutoff)
             P3  == StrassenMul(S4, B22, cutoff)
             P4  == StrassenMul(A22, T4, cutoff)
             P5  == StrassenMul(S1, T1, cutoff)
             P6  == StrassenMul(S2, T2, cutoff)
             P7  == StrassenMul(S3, T3, cutoff)
             U1  == mzd_add(P1, P2)
             U2  == mzd_add(P1, P6)
             U3  == mzd_add(U2, P7)
             U4  == mzd_add(U2, P5)
             U5  == mzd_add(U4, P3)
             U6  == mzd_add(U3, P4)
             U7  == mzd_add(U3, P5)
             C0  == mzd_init(m, n)
             C1  == PutBlock(PutBlock(PutBlock(PutBlock(C0, 0, 0, U1), 0, nh, U5),
                                      mh, 0, U6), mh, nh, U7)
             \* the column of A and the row of B left over when l is odd
             C2  == IF l % 2 = 1
                      THEN PutBlock(C1, 0, 0,
                             mzd_addmul_m4rm(mzd_submatrix(C1, 0, 0, 2 * mh, 2 * nh),
                                             mzd_submatrix(A, 0, 2 * lh, 2 * mh, l),
                                             mzd_submatrix(B, 2 * lh, 0, l, 2 * nh), 0))
                      ELSE C1
             \* the last column of the product when n is odd
             C3  == IF n % 2 = 1
                      THEN PutBlock(C2, 0, 2 * nh,
                             mzd_mul_m4rm(A, mzd_submatrix(B, 0, 2 * nh, l, n), 0))
                      ELSE C2
             \* the last row of the product when m is odd
         IN  IF m % 2 = 1
               THEN PutBlock(C3, 2 * mh, 0,
                      mzd_mul_m4rm(mzd_submatrix(A, 2 * mh, 0, m, l),
                                   mzd_submatrix(B, 0, 0, l, 2 * nh), 0))
               ELSE C3

mzd_mul(A, B, cutoff) == StrassenMul(A, B, StrassenCutoff(cutoff))

\* C += A * B by the same schedule: at or below the cutoff M4RM accumulates into C.
mzd_addmul(C, A, B, cutoff) ==
  IF MIN(MIN(A.nrows, A.ncols), B.ncols) <= StrassenCutoff(cutoff)
    THEN mzd_addmul_m4rm(C, A, B, 0)
    ELSE mzd_add(C, StrassenMul(A, B, StrassenCutoff(cutoff)))

\* ret -= 1 for each of the three pairs X/Y, Y/Z, X/Z that differ (0 = passed).
TestVerdict(X, Y, Z) ==
  (IF mzd_equal(X, Y) THEN 0 ELSE 0 - 1)
    + (IF mzd_equal(Y, Z) THEN 0 ELSE 0 - 1)
    + (IF mzd_equal(X, Z) THEN 0 ELSE 0 - 1)

\* The random pair A, B and its three products: C by Strassen-Winograd, D by
\* M4RM, E by the cubic algorithm.
mul_test_equality(m, l, n, k, cutoff, seed) ==
  LET A == mzd_randomize(mzd_init(m, l), seed)
      B == mzd_randomize(mzd_init(l, n), seed + 1)
  IN  [A |-> A, B |-> B,
       C |-> mzd_mul(A, B, cutoff),
       D |-> mzd_mul_m4rm(A, B, k),
       E |-> mzd_mul_naive(A, B)]

\* A plausible slip: E is the product alone, C is never added to it.
addmul_test_equality_noadd(m, l, n, k, cutoff, seed) ==
  LET A == mzd_randomize(mzd_init(m, l), seed)
      B == mzd_randomize(mzd_init(l, n), seed + 1)
      C == mzd_randomize(mzd_init(m, n), seed + 2)
  IN  [A |-> A, B |-> B, C |-> C,
       D |-> mzd_addmul_m4rm(mzd_copy(C), A, B, k),
       E |-> mzd_mul_m4rm(A, B, k),
       F |-> mzd_addmul(mzd_copy(C), A, B, cutoff)]

\* The random A, B, C and the three accumulations onto C: D by M4RM, E by
\* M4RM and mzd_add, F by Strassen-Winograd.
addmul_test_equality(m, l, n, k, cutoff, seed) ==
  LET A == mzd_randomize(mzd_init(m, l), seed)
      B == mzd_randomize(mzd_init(l, n), seed + 1)
      C == mzd_randomize(mzd_init(m, n), seed + 2)
  IN  [A |-> A, B |-> B, C |-> C,
       D |-> mzd_addmul_m4rm(mzd_copy(C), A, B, k),
       E |-> mzd_add(mzd_mul_m4rm(A, B, k), C),
       F |-> mzd_addmul(mzd_copy(C), A, B, cutoff)]

\* Dimensions that are 1, even, odd; and a few next to the word size, which
\* only go one level deep into the recursion.
SmallDims == {1, 2, 3, 5}

WideCutoff == 32

MulCases ==
  ((SmallDims \X SmallDims \X SmallDims) \X (0 .. MAXKAY) \X {0, 1, 2} \X {0})
    \cup ({<<1, 65, 3>>, <<65, 33, 66>>, <<3, 64, 65>>, <<34, 65, 1>>}
            \X {0, MAXKAY} \X {0, WideCutoff} \X {1})

MulInit ==
  /\ args \in {<<c[1][1], c[1][2], c[1][3], c[2], c[3], c[4]>> : c \in MulCases}
  /\ pc = "init"
  /\ ret = 0
  /\ prod = <<>>
  /\ MatIdle /\ WinIdle /\ GrayIdle /\ LifeIdle /\ AllocIdle /\ LayIdle /\ EchIdle

MulTestEquality ==
  /\ pc = "init"
  /\ prod' = mul_test_equality(args[1], args[2], args[3], args[4], args[5], args[6])
  /\ ret' = TestVerdict(prod'.C, prod'.D, prod'.E)
  /\ pc' = "mul_test_equality"
  /\ UNCHANGED <<matVars, args, winVars, grayVars, lifeVars, allocVars, layVars, echVars>>

AddmulTestEquality ==
  /\ pc = "init"
  /\ prod' = addmul_test_equality(args[1], args[2], args[3], args[4], args[5], args[6])
  /\ ret' = TestVerdict(prod'.D, prod'.E, prod'.F)
  /\ pc' = "addmul_test_equality"
  /\ UNCHANGED <<matVars, args, winVars, grayVars, lifeVars, allocVars, layVars, echVars>>

MulNext == MulTestEquality \/ AddmulTestEquality

MulSpec == MulInit /\ [][MulNext]_vars

(***************************************************************************)
(* misc.h: the mask builders on their own.  args = <<n>>.                  *)
(***************************************************************************)
AllIdle == MatIdle /\ WinIdle /\ GrayIdle /\ LifeIdle /\ AllocIdle /\ MulIdle /\ LayIdle /\ EchIdle

idleVars == <<matVars, winVars, grayVars, lifeVars, allocVars, mulVars, layVars, echVars>>

MaskInit ==
  /\ AllIdle
  /\ pc = "init"
  /\ ret = {}
  /\ args \in {<<n>> : n \in 0 .. m4ri_radix}

LeftBitmask ==
  /\ pc = "init"
  /\ pc' = "left_bitmask"
  /\ ret' = __M4RI_LEFT_BITMASK(args[1])
  /\ UNCHANGED <<idleVars, args>>

\* "n == 0 is never passed and would fail": the shift by 64 is undefined, a build
\* that shifts modulo 64 keeps every bit and one that shifts them all out keeps none.
RightBitmask ==
  /\ pc = "init"
  /\ pc' = "right_bitmask"
  /\ IF args[1] = 0
       THEN ret' \in {m4ri_ffff, {}}
       ELSE ret' = __M4RI_RIGHT_BITMASK(args[1])
  /\ UNCHANGED <<idleVars, args>>

MaskNext == LeftBitmask \/ RightBitmask

MaskSpec == MaskInit /\ [][MaskNext]_vars

(***************************************************************************)
(* misc.h: bit reversal and comparison of least significant bits.           *)
(* args = <<a, b>>, two words.                                             *)
(***************************************************************************)
\* 0x5555555555555555 (s = 1), 0x3333333333333333 (s = 2), 0x0F0F0F0F0F0F0F0F
\* (s = 4), 0x00FF00FF00FF00FF (s = 8), 0x0000FFFF0000FFFF (s = 16): runs of s
\* set bits alternating with runs of s clear bits, from bit 0.
ButterflyMask(s) == {b \in m4ri_ffff : (b \div s) % 2 = 0}

\* v = ((v >> s) & mask) | ((v & mask) << s)
ButterflyStage(v, s) ==
  OR(AND(SHR(v, s), ButterflyMask(s)), SHL(AND(v, ButterflyMask(s)), s))

\* A plausible slip: the last stage, the exchange of the 32-bit halves, is missing.
m4ri_swap_bits_nohalves(v) ==
  ButterflyStage(ButterflyStage(ButterflyStage(ButterflyStage(ButterflyStage(v, 1), 2), 4), 8), 16)

m4ri_swap_bits(v) ==
  LET v5 == ButterflyStage(ButterflyStage(ButterflyStage(ButterflyStage(ButterflyStage(v, 1), 2), 4), 8), 16)
  IN  OR(SHR(v5, 32), SHL(v5, 32))

\* ia - 1 on uint64_t: the borrow runs up to the lowest set bit; 0 - 1 wraps to all ones.
DEC(a) ==
  IF a = {}
    THEN m4ri_ffff
    ELSE LET low == CHOOSE x \in a : \A y \in a : x <= y
         IN  (a \ {low}) \cup (0 .. (low - 1))

\* A plausible slip: b == 0 is not treated apart.
m4ri_lesser_LSB_plain(a, b) == IF AND(XOR(DEC(a), a), b) # {} THEN 0 ELSE 1

\* return !(ib ? ((ia - 1) ^ ia) & ib : !ia);
m4ri_lesser_LSB(a, b) ==
  LET nonzero == IF b # {} THEN AND(XOR(DEC(a), a), b) # {} ELSE a = {}
  IN  IF nonzero THEN 0 ELSE 1

\* The zero word, the all-ones word, every single bit, every word with all the
\* bits from i upwards, and some words of pseudo-random bits.
WordSamples ==
  {{}} \cup {{i} : i \in m4ri_ffff} \cup {i .. (m4ri_radix - 1) : i \in m4ri_ffff}
    \cup {RandWord(sd, i, k) : sd \in Seeds, i \in RowIdx, k \in WordIdx}
    \cup {SHL(RandWord(0, 0, 0), i) : i \in {1, 5, 32, 60}}

BitsInit ==
  /\ AllIdle
  /\ pc = "init"
  /\ ret = {}
  /\ args \in WordSamples \X WordSamples

SwapBits ==
  /\ pc = "init"
  /\ pc' = "m4ri_swap_bits"
  /\ ret' = m4ri_swap_bits(args[1])
  /\ UNCHANGED <<idleVars, args>>

\* m4ri_swap_bits applied to its own result
SwapBitsAgain ==
  /\ pc = "m4ri_swap_bits"
  /\ pc' = "m4ri_swap_bits twice"
  /\ ret' = m4ri_swap_bits(ret)
  /\ UNCHANGED <<idleVars, args>>

LesserLSB ==
  /\ pc = "init"
  /\ pc' = "m4ri_lesser_LSB"
  /\ ret' = m4ri_lesser_LSB(args[1], args[2])
  /\ UNCHANGED <<idleVars, args>>

BitsNext == SwapBits \/ SwapBitsAgain \/ LesserLSB

BitsSpec == BitsInit /\ [][BitsNext]_vars

(***************************************************************************)
(* packedmatrix.h: where the rows lie.  An address counts words.  A layout *)
(* is [nrows, rowstride, offset_vector, row_offset, blockrows_log,         *)
(* multiple_blocks, blocks, rows]: blocks[n] = [begin, size] with size in  *)
(* bytes, rows[i] the cached address of row i.                             *)
(***************************************************************************)
MaxLayRows == 9

WordBytes == 8

\* Where the allocator put block n: apart from each other, at uneven distances.
BlockBegin(n) == 1000 * (n + 1) + 37 * n * n

\* A matrix of its own: 2^blockrows_log rows per block (the last block holds the
\* rest), rows rowstride words apart within a block, the first row at its begin.
InitLayout(nrows, rowstride, blockrows_log) ==
  LET blockrows == 2 ^ blockrows_log
      nblocks   == (nrows + blockrows - 1) \div blockrows
  IN  [nrows |-> nrows, rowstride |-> rowstride, offset_vector |-> 0, row_offset |-> 0,
       blockrows_log |-> blockrows_log, multiple_blocks |-> nblocks > 1,
       blocks |-> [n \in 0 .. (nblocks - 1) |->
                     [begin |-> BlockBegin(n),
                      size  |-> MIN(blockrows, nrows - n * blockrows) * rowstride * WordBytes]],
       rows |-> [i \in 0 .. (nrows - 1) |->
                   BlockBegin(i \div blockrows) + (i % blockrows) * rowstride]]

\* The window of nrows rows from row lowr of P, wrd_offset words into each row:
\* it borrows P's storage, so its row i is P's row lowr + i; its blocks are P's
\* from the block of its first row on; row_offset counts the rows from the start
\* of that block to its first row; rows[0] = blocks[0].begin + offset_vector.
WindowLayout(P, lowr, wrd_offset, nrows) ==
  LET blockrows == 2 ^ P.blockrows_log
      skipped   == (P.row_offset + lowr) \div blockrows
      row_off   == (P.row_offset + lowr) % blockrows
      nblocks   == (row_off + nrows + blockrows - 1) \div blockrows
  IN  [nrows |-> nrows, rowstride |-> P.rowstride,
       offset_vector |-> P.rows[lowr] + wrd_offset - P.blocks[skipped].begin,
       row_offset |-> row_off,
       blockrows_log |-> P.blockrows_log, multiple_blocks |-> nblocks > 1,
       blocks |-> [n \in 0 .. (nblocks - 1) |-> P.blocks[skipped + n]],
       rows |-> [i \in 0 .. (nrows - 1) |-> P.rows[lowr + i] + wrd_offset]]

mzd_first_row(L) == L.blocks[0].begin + L.offset_vector

\* assert(n > 0)
mzd_first_row_next_block(L, n) ==
  L.blocks[n].begin + L.offset_vector - L.row_offset * L.rowstride

\* (M->row_offset + row) >> M->blockrows_log
mzd_row_to_block(L, row) == (L.row_offset + row) \div (2 ^ L.blockrows_log)

mzd_rows_in_block(L, n) ==
  IF L.multiple_blocks
    THEN IF n = 0
      THEN (2 ^ L.blockrows_log) - L.row_offset
      ELSE LET last_block == mzd_row_to_block(L, L.nrows - 1)
           IN  IF n < last_block
                 THEN 2 ^ L.blockrows_log
                 ELSE L.nrows + L.row_offset - n * (2 ^ L.blockrows_log)
    ELSE IF n # 0 THEN 0 ELSE L.nrows

\* A plausible slip: the words of the blocks before block n are not taken off.
mzd_row_oneblock(L, row) == L.blocks[0].begin + L.offset_vector + row * L.rowstride

mzd_row(L, row) ==
  LET big_vector == L.offset_vector + row * L.rowstride
      n          == (L.row_offset + row) \div (2 ^ L.blockrows_log)
  IN  IF L.multiple_blocks
        THEN L.blocks[n].begin + big_vector - n * (L.blocks[0].size \div WordBytes)
        ELSE L.blocks[0].begin + big_vector

ParentLayouts ==
  {InitLayout(nr, rs, lg) : nr \in 1 .. MaxLayRows, rs \in {1, 2, 4}, lg \in {1, 2}}

\* Every range of rows of a parent, from the first or the last word of its rows.
WindowsOf(P) ==
  {WindowLayout(P, c[1], c[2], c[3]) :
     c \in {x \in (0 .. (P.nrows - 1)) \X {0, P.rowstride - 1} \X (1 .. P.nrows) :
              x[1] + x[3] <= P.nrows}}

WindowLayouts == UNION {WindowsOf(P) : P \in ParentLayouts}

LayInit ==
  /\ MatIdle /\ WinIdle /\ GrayIdle /\ LifeIdle /\ AllocIdle /\ MulIdle /\ EchIdle
  /\ lay \in ParentLayouts \cup WindowLayouts
  /\ pc = "init"
  /\ args = <<>>
  /\ ret = 0

LayCall(name, a, r) ==
  /\ pc = "init"
  /\ pc' = name
  /\ args' = a
  /\ ret' = r
  /\ UNCHANGED <<matVars, winVars, grayVars, lifeVars, allocVars, mulVars, layVars, echVars>>

MzdRow == \E row \in DOMAIN lay.rows : LayCall("mzd_row", <<row>>, mzd_row(lay, row))

MzdFirstRow == LayCall("mzd_first_row", <<0>>, mzd_first_row(lay))

MzdFirstRowNextBlock ==
  \E n \in DOMAIN lay.blocks :
    /\ n > 0
    /\ LayCall("mzd_first_row_next_block", <<n>>, mzd_first_row_next_block(lay, n))

MzdRowsInBlock ==
  \E n \in DOMAIN lay.blocks : LayCall("mzd_rows_in_block", <<n>>, mzd_rows_in_block(lay, n))

LayNext == MzdRow \/ MzdFirstRow \/ MzdFirstRowNextBlock \/ MzdRowsInBlock

LaySpec == LayInit /\ [][LayNext]_vars

(***************************************************************************)
(* M4RI echelonize: the passes of spec 4.4 as a state machine.  ech holds  *)
(* the matrix A, the matrix it started from (input), k, full, the pass     *)
(* position (r, c), the pivot columns piv found in this pass with their    *)
(* number kbar (the k' of the description), the table T and the state.     *)
(***************************************************************************)
MaxEchRows == 4

MaxEchCols == 3

MaxEchK == 2

\* Rows rowa and rowb of A exchanged.
EchRowSwap(A, rowa, rowb) ==
  [A EXCEPT !.rows = [i \in 0 .. (A.nrows - 1) |->
     IF i = rowa THEN A.rows[rowb] ELSE IF i = rowb THEN A.rows[rowa] ELSE A.rows[i]]]

\* Columns cola and colb of A exchanged.
EchColSwap(A, cola, colb) ==
  [A EXCEPT !.rows = [i \in 0 .. (A.nrows - 1) |->
     {IF j = cola THEN colb ELSE IF j = colb THEN cola ELSE j : j \in A.rows[i]}]]

\* Row srcrow added to row dstrow.
EchRowAdd(A, dstrow, srcrow) ==
  [A EXCEPT !.rows[dstrow] = XOR(A.rows[dstrow], A.rows[srcrow])]

\* Step 1, search-and-swap: for the columns j = c .. c + kk - 1 in turn, the first
\* row of [r + |piv|, endrow) with a 1 in column j is swapped to row r + |piv|
\* and j becomes a pivot column.
RECURSIVE SearchPivots(_, _, _, _, _, _)
SearchPivots(A, r, endrow, j, stopcol, piv) ==
  IF j >= stopcol
    THEN [A |-> A, piv |-> piv]
    ELSE LET cand == {i \in (r + Len(piv)) .. (endrow - 1) : j \in A.rows[i]}
         IN  IF cand = {}
               THEN SearchPivots(A, r, endrow, j + 1, stopcol, piv)
               ELSE LET i == CHOOSE x \in cand : \A y \in cand : x <= y
                    IN  SearchPivots(EchRowSwap(A, i, r + Len(piv)), r, endrow,
                                     j + 1, stopcol, Append(piv, j))

\* Step 1, compaction: the t-th pivot column is swapped to column c + t - 1.
RECURSIVE CompactColumns(_, _, _, _)
CompactColumns(A, c, piv, t) ==
  IF t > Len(piv)
    THEN A
    ELSE CompactColumns(EchColSwap(A, piv[t], c + t - 1), c, piv, t + 1)

\* Step 2: the 1s below the pivot (r + i, c + i) in the rows of the block are
\* cleared by adding row r + i to them.
RECURSIVE ClearBelow(_, _, _, _, _)
ClearBelow(A, r, c, kbar, i) ==
  IF i >= kbar
    THEN A
    ELSE ClearBelow(
           [A EXCEPT !.rows = [l \in 0 .. (A.nrows - 1) |->
              IF r + i < l /\ l < r + kbar /\ (c + i) \in A.rows[l]
                THEN XOR(A.rows[l], A.rows[r + i])
                ELSE A.rows[l]]],
           r, c, kbar, i + 1)

\* Step 3: the table over the rows r .. r + kbar: T[x] is the sum of the rows
\* r + b for the bits b set in x, the table that the Gray code walk fills.
EchTable(A, r, kbar) ==
  [x \in 0 .. (__M4RI_TWOPOW(kbar) - 1) |->
     {j \in 0 .. (A.ncols - 1) :
        Cardinality({b \in 0 .. (kbar - 1) : b \in BitsOf(x) /\ j \in A.rows[r + b]}) % 2 = 1}]

\* Step 4: every row outside [r, r + kbar) (only those below when full is false)
\* gets the table row of its key in the columns [c, c + kbar) added.
EchEliminate(A, Tx, r, c, kbar, full) ==
  [A EXCEPT !.rows = [q \in 0 .. (A.nrows - 1) |->
     IF (full /\ q < r) \/ q >= r + kbar
       THEN XOR(A.rows[q], Tx[ReadKey(A, q, c, kbar)])
       ELSE A.rows[q]]]

\* All matrices of the given shape.
EchMatrices(nr, nc) ==
  {[nrows |-> nr, ncols |-> nc, rows |-> f] : f \in [0 .. (nr - 1) -> SUBSET (0 .. (nc - 1))]}

EchInputs == UNION {EchMatrices(nr, nc) : nr \in 0 .. MaxEchRows, nc \in 0 .. MaxEchCols}

EchInit ==
  /\ MatIdle /\ WinIdle /\ GrayIdle /\ LifeIdle /\ AllocIdle /\ MulIdle /\ LayIdle
  /\ \E A \in EchInputs, k \in 1 .. MaxEchK, full \in BOOLEAN :
       ech = [A |-> A, input |-> A, k |-> k, full |-> full, r |-> 0, c |-> 0,
              kbar |-> 0, piv |-> <<>>, T |-> <<>>, state |-> "searching_for_pivot"]
  /\ pc = "init"
  /\ args = <<>>
  /\ ret = 0

EchFrame == UNCHANGED <<matVars, winVars, grayVars, lifeVars, allocVars, mulVars, layVars, pc, args, ret>>

\* A pass starts at (r, c) while r < nrows and c < ncols.
EchSearch ==
  /\ ech # <<>>
  /\ ech.state = "searching_for_pivot"
  /\ ech.r < ech.A.nrows /\ ech.c < ech.A.ncols
  /\ LET kk  == MIN(ech.k, ech.A.ncols - ech.c)
         end == MIN(ech.r + 3 * ech.k, ech.A.nrows)
         res == SearchPivots(ech.A, ech.r, end, ech.c, ech.c + kk, <<>>)
     IN  ech' = [ech EXCEPT !.A = res.A, !.piv = res.piv, !.kbar = Len(res.piv),
                            !.state = "compacting_k_block"]
  /\ EchFrame

EchCompact ==
  /\ ech # <<>>
  /\ ech.state = "compacting_k_block"
  /\ ech' = [ech EXCEPT
               !.A = ClearBelow(CompactColumns(ech.A, ech.c, ech.piv, 1),
                                ech.r, ech.c, ech.kbar, 0),
               !.state = "building_table"]
  /\ EchFrame

EchBuildTable ==
  /\ ech # <<>>
  /\ ech.state = "building_table"
  /\ ech' = [ech EXCEPT !.T = EchTable(ech.A, ech.r, ech.kbar), !.state = "eliminating"]
  /\ EchFrame

EchEliminateRows ==
  /\ ech # <<>>
  /\ ech.state = "eliminating"
  /\ ech' = [ech EXCEPT
               !.A = EchEliminate(ech.A, ech.T, ech.r, ech.c, ech.kbar, ech.full),
               !.state = "advancing"]
  /\ EchFrame

\* Step 5: r += k', c += k'.
EchAdvance ==
  /\ ech # <<>>
  /\ ech.state = "advancing"
  /\ ech' = [ech EXCEPT !.r = ech.r + ech.kbar, !.c = ech.c + ech.kbar,
                        !.state = "searching_for_pivot"]
  /\ EchFrame

\* Terminal: done when r == nrows or c == ncols; the rank returned is r.
EchDone ==
  /\ ech # <<>>
  /\ ech.state = "searching_for_pivot"
  /\ (ech.r = ech.A.nrows \/ ech.c = ech.A.ncols)
  /\ ech' = [ech EXCEPT !.state = "done"]
  /\ EchFrame

EchNext == EchSearch \/ EchCompact \/ EchBuildTable \/ EchEliminateRows \/ EchAdvance \/ EchDone

EchSpec == EchInit /\ [][EchNext]_vars

\* The passes are the iterations of one sequential loop: a step that can be taken is taken.
EchFairSpec == EchInit /\ [][EchNext]_vars /\ WF_vars(EchNext)

(***************************************************************************)
(* Vocabulary of the properties.                                           *)
(***************************************************************************)
\* The logical entry M[r, j]: bit (j + offset) of the row's storage.
StorageBit(rws, r, p) == IF (p % m4ri_radix) \in rws[r][p \div m4ri_radix] THEN 1 ELSE 0

Entry(Mx, rws, r, j) == StorageBit(rws, r, j + Mx.offset)

StoragePos == 0 .. (m4ri_radix * NWords - 1)

Bit(w, i) == IF i \in w THEN 1 ELSE 0

Xor1(x, y) == (x + y) % 2

\* Row r of the storage is the same in rws1 and rws2 at every position outside S.
RowSameOutside(rws1, rws2, r, S) ==
  \A p \in StoragePos \ S : StorageBit(rws1, r, p) = StorageBit(rws2, r, p)

OtherRowsSame(rws1, rws2, R) == \A r \in RowIdx \ R : rws1[r] = rws2[r]

\* C1: after mzd_write_bit(M,i,j,v), mzd_read_bit(M,i,j) returns v and every
\* other bit of M's storage (row i outside column j, all other rows) is unchanged.
C1_WriteReadBit ==
  pc = "write_bit" =>
    /\ mzd_read_bit(M, rows, args[1], args[2]) = args[3]
    /\ RowSameOutside(rows, old, args[1], {args[2] + M.offset})
    /\ OtherRowsSame(rows, old, {args[1]})

\* A write of the value the bit did not hold, through a window with an offset.
C1_Witness ==
  /\ pc = "write_bit"
  /\ M.offset > 0
  /\ args[3] = 0
  /\ Entry(M, old, args[1], args[2]) = 1
  /\ rows # old

Cols(Mx) == 0 .. (Mx.ncols - 1)

\* The storage positions of columns [c, c + n) of M.
Span(Mx, c, n) == {c + Mx.offset + i : i \in 0 .. (n - 1)}

\* The range [c, c + n) lies in one storage word / straddles two.
Straddles(Mx, c, n) == ((c + Mx.offset) % m4ri_radix) + n > m4ri_radix

\* C2: mzd_read_bits(M,r,c,n) returns the word whose bit i (i < n) is M[r,c+i]
\* and whose bits n..63 are zero, in one storage word or straddling two.
C2_ReadBits ==
  pc = "read_bits" =>
    \A i \in m4ri_ffff :
      Bit(ret, i) = IF i < args[3] THEN Entry(M, rows, args[1], args[2] + i) ELSE 0

\* A read that straddles two words of a window and returns a bit of the second.
C2_Witness ==
  /\ pc = "read_bits"
  /\ M.offset > 0
  /\ Straddles(M, args[2], args[3])
  /\ args[3] < m4ri_radix
  /\ \E i \in ret : (args[2] + M.offset + i) \div m4ri_radix = 1

\* Row r holds the same logical entries in rws1 and rws2 outside columns [c, c + n).
RowColsSameOutside(Mx, rws1, rws2, r, c, n) ==
  \A j \in Cols(Mx) \ (c .. (c + n - 1)) : Entry(Mx, rws1, r, j) = Entry(Mx, rws2, r, j)

\* C3: mzd_xor_bits(M,r,c,n,v) XORs exactly the low n bits of v into columns
\* [c, c+n) of row r, for every word v, and changes no bit of the row outside.
C3_XorBitsLowN ==
  pc = "xor_bits" =>
    /\ \A i \in 0 .. (args[3] - 1) :
         Entry(M, rows, args[1], args[2] + i)
           = Xor1(Entry(M, old, args[1], args[2] + i), Bit(values, i))
    /\ RowColsSameOutside(M, rows, old, args[1], args[2], args[3])

\* C4: mzd_and_bits(M,r,c,n,v) ANDs the low n bits of v into columns [c, c+n)
\* of row r and changes no column of the row outside.
C4_AndBitsLowN ==
  pc = "and_bits" =>
    /\ \A i \in 0 .. (args[3] - 1) :
         Entry(M, rows, args[1], args[2] + i)
           = Entry(M, old, args[1], args[2] + i) * Bit(values, i)
    /\ RowColsSameOutside(M, rows, old, args[1], args[2], args[3])

\* C5: mzd_clear_bits(M,r,c,n) sets columns [c, c+n) of row r to 0, changes no
\* other bit of row r and no other row; mzd_read_bits(M,r,c,n) then returns 0.
C5_ClearBits ==
  pc = "clear_bits" =>
    /\ \A i \in 0 .. (args[3] - 1) : Entry(M, rows, args[1], args[2] + i) = 0
    /\ RowSameOutside(rows, old, args[1], Span(M, args[2], args[3]))
    /\ OtherRowsSame(rows, old, {args[1]})
    /\ mzd_read_bits(M, rows, args[1], args[2], args[3]) = {}

\* A clear across a word boundary of a window that cleared a set bit on each side.
C5_Witness ==
  /\ pc = "clear_bits"
  /\ M.offset > 0
  /\ Straddles(M, args[2], args[3])
  /\ old[args[1]][0] # rows[args[1]][0]
  /\ old[args[1]][1] # rows[args[1]][1]


\* Rows a and b of rws1 are rows b and a of rws2 on the columns S.
Exchanged(Mx, rws1, rws2, a, b, S) ==
  \A j \in S : /\ Entry(Mx, rws1, a, j) = Entry(Mx, rws2, b, j)
               /\ Entry(Mx, rws1, b, j) = Entry(Mx, rws2, a, j)

\* C6: mzd_row_swap(M,a,b) exchanges columns 0..ncols-1 of rows a and b, leaves
\* every storage bit of both rows outside the logical span and all other rows
\* unchanged, and applied twice restores the initial storage.
C6_RowSwap ==
  pc = "row_swap" =>
    /\ Exchanged(M, rows, old, args[1], args[2], Cols(M))
    /\ RowSameOutside(rows, old, args[1], Span(M, 0, M.ncols))
    /\ RowSameOutside(rows, old, args[2], Span(M, 0, M.ncols))
    /\ OtherRowsSame(rows, old, {args[1], args[2]})
    /\ mzd_row_swap(M, rows, args[1], args[2]) = old

\* Two rows of a two-word window are swapped; they differ below the offset in
\* the first word and above the last column in the last word.
C6_Witness ==
  /\ pc = "row_swap"
  /\ args[1] # args[2]
  /\ M.offset > 0
  /\ M.width = 2
  /\ (M.ncols + M.offset) % m4ri_radix # 0
  /\ \E p \in 0 .. (M.offset - 1) :
       StorageBit(old, args[1], p) # StorageBit(old, args[2], p)
  /\ \E p \in (M.ncols + M.offset) .. (2 * m4ri_radix - 1) :
       StorageBit(old, args[1], p) # StorageBit(old, args[2], p)
  /\ rows # old

\* C7: for offset == 0, _mzd_row_swap(M,a,b,start_word) exchanges the columns
\* >= 64*start_word of rows a and b, leaves the columns below and the excess bits
\* of the last word unchanged, and is a no-op when a == b or start_word >= width.
C7_RowSwapFrom ==
  pc = "_row_swap" =>
    /\ Exchanged(M, rows, old, args[1], args[2],
                 {j \in Cols(M) : j >= m4ri_radix * args[3]})
    /\ \A j \in {c \in Cols(M) : c < m4ri_radix * args[3]} :
         /\ Entry(M, rows, args[1], j) = Entry(M, old, args[1], j)
         /\ Entry(M, rows, args[2], j) = Entry(M, old, args[2], j)
    /\ RowSameOutside(rows, old, args[1], Span(M, 0, M.ncols))
    /\ RowSameOutside(rows, old, args[2], Span(M, 0, M.ncols))
    /\ OtherRowsSame(rows, old, {args[1], args[2]})
    /\ (args[1] = args[2] \/ args[3] >= M.width) => rows = old

\* A swap from word 1 of a two-word matrix with excess bits; the rows differ in
\* word 0 and in the excess bits, which stay, and in the columns that move.
C7_Witness ==
  /\ pc = "_row_swap"
  /\ args[1] # args[2]
  /\ args[3] = 1
  /\ M.width = 2
  /\ M.ncols % m4ri_radix # 0
  /\ old[args[1]][0] # old[args[2]][0]
  /\ \E p \in M.ncols .. (2 * m4ri_radix - 1) :
       StorageBit(old, args[1], p) # StorageBit(old, args[2], p)
  /\ rows # old

\* C8: mzd_row_add_offset(M,dst,src,c) sets M[dst,j] = old M[dst,j] XOR old
\* M[src,j] for every column j >= c, leaves M[dst,j] unchanged for j < c and
\* leaves all rows other than dst unchanged.
C8_RowAddOffset ==
  pc = "row_add_offset" =>
    /\ \A j \in Cols(M) :
         Entry(M, rows, args[1], j)
           = IF j >= args[3]
               THEN Xor1(Entry(M, old, args[1], j), Entry(M, old, args[2], j))
               ELSE Entry(M, old, args[1], j)
    /\ OtherRowsSame(rows, old, {args[1]})

\* A row is added to another from a column inside the first word of a two-word
\* window; the source has a set bit before the start column.
C8_Witness ==
  /\ pc = "row_add_offset"
  /\ args[1] # args[2]
  /\ M.offset > 0
  /\ M.width = 2
  /\ args[3] > 0
  /\ args[3] + M.offset < m4ri_radix
  /\ \E j \in 0 .. (args[3] - 1) : Entry(M, old, args[2], j) = 1
  /\ rows[args[1]][0] # old[args[1]][0]
  /\ rows[args[1]][1] # old[args[1]][1]

\* C9: mzd_col_swap_in_rows(M,a,b,rlo,rhi) exchanges M[i,a] and M[i,b] for every
\* rlo <= i < rhi, changes no other bit of those rows and no row outside
\* [rlo, rhi), and is a no-op when a == b.
C9_ColSwapInRows ==
  pc = "col_swap_in_rows" =>
    /\ \A i \in RowIdx :
         IF args[3] <= i /\ i < args[4]
           THEN /\ Entry(M, rows, i, args[1]) = Entry(M, old, i, args[2])
                /\ Entry(M, rows, i, args[2]) = Entry(M, old, i, args[1])
                /\ RowSameOutside(rows, old, i, {args[1] + M.offset, args[2] + M.offset})
           ELSE rows[i] = old[i]
    /\ args[1] = args[2] => rows = old

\* Columns in different words of a window, the first at the smaller position
\* within its word, swapped in a proper sub-range of the rows where they differ.
C9_Witness ==
  /\ pc = "col_swap_in_rows"
  /\ M.offset > 0
  /\ (args[1] + M.offset) \div m4ri_radix # (args[2] + M.offset) \div m4ri_radix
  /\ (args[1] + M.offset) % m4ri_radix < (args[2] + M.offset) % m4ri_radix
  /\ args[3] > 0
  /\ args[4] = args[3] + 1
  /\ Entry(M, old, args[3], args[1]) # Entry(M, old, args[3], args[2])

\* C10: mzd_combine_weird(DST,rdst,sdst,A,ra,sa,B,rb,sb) stores A[ra,:] XOR B[rb,:]
\* into the columns of DST row rdst from start word sdst on and leaves the columns
\* of that row before start word sdst unchanged.
C10_CombineWeirdStart ==
  pc = "combine_weird" =>
    \A j \in Cols(M) :
      Entry(M, rows, args[1], j)
        = IF (j + M.offset) \div m4ri_radix >= args[2]
            THEN Xor1(Entry(srcA.M, srcA.rows, args[3], j),
                      Entry(srcB.M, srcB.rows, args[5], j))
            ELSE Entry(M, old, args[1], j)

\* The words of row r from start word s on hold A[ra,:] XOR B[rb,:] at every logical
\* column, and the row is unchanged at every storage position outside the columns.
CombineEvenPost ==
  /\ \A j \in Cols(M) :
       (j + M.offset) \div m4ri_radix >= args[2] =>
         Entry(M, rows, args[1], j)
           = Xor1(Entry(srcA.M, srcA.rows, args[3], j), Entry(srcB.M, srcB.rows, args[5], j))
  /\ RowSameOutside(rows, old, args[1], {j + M.offset : j \in Cols(M)})

\* C11 as stated: for any common column offset, zero or not,
\* mzd_combine_even(DST,rdst,s,A,ra,s,B,rb,s) sets every logical column of DST row
\* rdst from start word s on to A[ra,j] XOR B[rb,j] and changes no bit outside
\* DST's logical column range.
C11_CombineEvenAnyOffset ==
  pc = "combine_even" => CombineEvenPost

\* C11: when DST, A and B all have column offset zero and the same ncols,
\* mzd_combine_even(DST,rdst,s,A,ra,s,B,rb,s) sets every logical column of DST row
\* rdst from start word s on to A[ra,j] XOR B[rb,j] and changes no bit outside
\* DST's logical column range; the other rows are untouched.
C11_CombineEven ==
  (pc = "combine_even" /\ M.offset = 0) =>
    /\ CombineEvenPost
    /\ OtherRowsSame(rows, old, {args[1]})

\* A two-word row with a partial last word, combined from word 1 on, where the
\* combination changes a column and a padding bit of the sources differs from DST's.
C11_Witness ==
  /\ pc = "combine_even"
  /\ M.offset = 0
  /\ M.width = 2
  /\ M.ncols % m4ri_radix # 0
  /\ args[2] = 1
  /\ \E j \in Cols(M) : Entry(M, rows, args[1], j) # Entry(M, old, args[1], j)
  /\ \E p \in StoragePos \ Cols(M) :
       StorageBit(old, args[1], p)
         # Xor1(StorageBit(srcA.rows, args[3], p), StorageBit(srcB.rows, args[5], p))

\* The entries of the parent inside / outside the rectangle of the window.
InWindow(r, c) ==
  /\ W.lowr <= r /\ r < W.lowr + W.nrows
  /\ W.lowc <= c /\ c < W.lowc + W.ncols

\* Every entry of the parent outside the window's rectangle is as before the call.
WindowFrame ==
  \A r \in RowIdx, c \in Cols(M) :
    ~InWindow(r, c) => Entry(M, rows, r, c) = Entry(M, old, r, c)

\* The call through W at (i, j) is observed through M at (lowr + i, lowc + j).
WindowObserved ==
  /\ pc = "window_write_bit" =>
       mzd_read_bit(M, rows, W.lowr + args[1], W.lowc + args[2]) = args[3]
  /\ pc = "window_xor_bits" =>
       \A t \in 0 .. (args[3] - 1) :
         mzd_read_bit(M, rows, W.lowr + args[1], W.lowc + args[2] + t)
           = Xor1(Entry(M, old, W.lowr + args[1], W.lowc + args[2] + t), Bit(values, t))
  /\ pc = "window_clear_bits" =>
       \A t \in 0 .. (args[3] - 1) :
         mzd_read_bit(M, rows, W.lowr + args[1], W.lowc + args[2] + t) = 0

\* A read through W returns the parent's current entry at the same logical position.
WindowReads ==
  \A i \in 0 .. (W.nrows - 1), j \in 0 .. (W.ncols - 1) :
    mzd_read_bit(W, WindowRows(W, rows), i, j) = mzd_read_bit(M, rows, W.lowr + i, W.lowc + j)

\* C12: over any sequence of mzd_write_bit / mzd_xor_bits / mzd_clear_bits calls
\* through a window W of M (any lowc), each call at (i,j) is observed by reads of M
\* at (lowr+i, lowc+j), reads through W return M's current value, and the entries
\* of M outside the window's rectangle are unchanged.
C12_WindowAliasing ==
  /\ WindowObserved
  /\ WindowReads
  /\ WindowFrame

\* The same when every mzd_xor_bits call passes a value that fits its n bits.
WindowAliasingWhenValuesFit ==
  (pc = "window_xor_bits" => values \subseteq 0 .. (args[3] - 1)) => C12_WindowAliasing

\* The Gray code tables are built: m4ri_build_code has returned.
CodeBuilt == pc \in {"build_code", "make_table"}

CodeIdx == 0 .. (__M4RI_TWOPOW(kay) - 1)

\* x and y differ in exactly the bit b.
FlipsBit(x, y, b) == BitsOf(y) = XOR(BitsOf(x), {b})

\* C13: after m4ri_build_code(ord, inc, k), ord[i] = i XOR (i >> 1) for every
\* 0 <= i < 2^k, ord is a permutation of 0..2^k-1 with ord[0] = 0, and ord[i-1]
\* and ord[i] differ in exactly one bit for every 1 <= i < 2^k.
C13_GrayOrd ==
  CodeBuilt =>
    /\ \A i \in CodeIdx : BitsOf(ord[i]) = XOR(BitsOf(i), BitsOf(i \div 2))
    /\ {ord[i] : i \in CodeIdx} = CodeIdx
    /\ ord[0] = 0
    /\ \A i \in CodeIdx \ {0} : \E b \in IntBits : FlipsBit(ord[i - 1], ord[i], b)

\* The longest code is built over arrays that held other values before.
C13_Witness ==
  /\ pc = "build_code"
  /\ kay = MAXKAY
  /\ ord[__M4RI_TWOPOW(kay) - 1] = __M4RI_TWOPOW(kay - 1)

\* C14 as stated: for every step j with 1 <= j < 2^k, inc[j] is in [0, k) and
\* ord[j] = ord[j-1] XOR (1 << inc[j]).
C14_IncAtStep ==
  CodeBuilt =>
    \A j \in CodeIdx \ {0} :
      /\ 0 <= inc[j] /\ inc[j] < kay
      /\ FlipsBit(ord[j - 1], ord[j], inc[j])

\* C14: for every step j with 1 <= j < 2^k, inc[j-1] is in [0, k) and is the
\* index of the single bit that flips between ord[j-1] and ord[j], i.e.
\* ord[j] = ord[j-1] XOR (1 << inc[j-1]); the last entry inc[2^k - 1] = k - 1
\* is the bit that leads from ord[2^k - 1] back to ord[0].
C14_IncBeforeStep ==
  CodeBuilt =>
    /\ \A j \in CodeIdx \ {0} :
         /\ 0 <= inc[j - 1] /\ inc[j - 1] < kay
         /\ FlipsBit(ord[j - 1], ord[j], inc[j - 1])
    /\ inc[__M4RI_TWOPOW(kay) - 1] = kay - 1
    /\ FlipsBit(ord[__M4RI_TWOPOW(kay) - 1], ord[0], kay - 1)

\* A code of length > 1: its steps flip different bits.
C14_Witness ==
  /\ pc = "build_code"
  /\ kay >= 3
  /\ inc[0] = 0 /\ inc[1] = 1 /\ inc[3] = 2

\* The rows of B the entry T[x] must add up: those at the set bits of x.
RECURSIVE XorRows(_, _)
XorRows(j, S) ==
  IF S = {} THEN {} ELSE LET b == CHOOSE x \in S : TRUE IN XOR(Brows[j + b], XorRows(j, S \ {b}))

\* The entries of T written so far are the sums of the rows at their set bits.
TableRight == \A s \in 0 .. step : T[ord[s]] = XorRows(args[1], BitsOf(ord[s]))

\* C15 as stated: T[0] = 0 and T[ord[s]] = T[ord[s-1]] XOR B[j + inc[s]] for
\* s = 1..2^k-1 yields T[x] = XOR of B[j + b] over the set bits b of x.
C15_TableIncAtStep ==
  (pc = "make_table" /\ args[2] = 0) => TableRight

\* C15: T[0] = 0 and T[ord[s]] = T[ord[s-1]] XOR B[j + inc[s-1]] for s = 1..2^k-1,
\* with ord and inc as produced by m4ri_build_code, yields T[x] = XOR of B[j + b]
\* over the set bits b of x for every x in 0..2^k-1.
C15_TableIncBeforeStep ==
  (pc = "make_table" /\ args[2] = 1) => TableRight

\* The whole table of the longest code is built, from rows that start at row 1.
C15_Witness ==
  /\ pc = "make_table"
  /\ args = <<1, 1>>
  /\ kay = MAXKAY
  /\ step = __M4RI_TWOPOW(kay) - 1
  /\ T[__M4RI_TWOPOW(kay) - 1] # {}

\* e = floor(log2 v): 2^e <= v < 2^(e+1), with the upper test safe from overflow.
IsFloorLog2(e, v) == (2 ^ e) <= v /\ v \div 2 < (2 ^ e)

\* C16: for a, b >= 1, m4ri_opt_k(a,b,c) = min(MAXKAY, max(1, floor(0.75 *
\* (1 + floor(log2 min(a,b)))))), which is in [1, MAXKAY] and does not depend on
\* c; and log2_floor(v) = floor(log2 v) for 1 <= v < 2^31.
C16_OptK ==
  /\ pc = "opt_k" =>
       /\ \E e \in IntBits :
            /\ IsFloorLog2(e, IF args[1] < args[2] THEN args[1] ELSE args[2])
            /\ \E q \in 0 .. 31 :
                 /\ 4 * q <= 3 * (1 + e) /\ 3 * (1 + e) < 4 * (q + 1)
                 /\ ret = (IF q < 1 THEN 1 ELSE IF q > MAXKAY THEN MAXKAY ELSE q)
       /\ 1 <= ret /\ ret <= MAXKAY
       /\ \A c \in {0, 7, 2 ^ 30} : m4ri_opt_k(args[1], args[2], c) = ret
  /\ pc = "log2_floor" => IsFloorLog2(ret, args[2])

\* The smaller dimension is the second one and the result is strictly inside [1, MAXKAY].
C16_Witness ==
  /\ pc = "opt_k"
  /\ args[2] < args[1]
  /\ args[3] # 0
  /\ 1 < ret /\ ret < MAXKAY

AfterInit == pc \in {"m4ri_init", "m4ri_build_all_codes"}

AfterFini == pc \in {"m4ri_fini", "m4ri_destroy_all_codes"}

\* C17: over any sequence of m4ri_init / m4ri_fini (m4ri_build_all_codes /
\* m4ri_destroy_all_codes) calls: after an init the codebook holds, for every k in
\* 1..MAXKAY, the ord and inc tables of length 2^k built by m4ri_build_code; after
\* a fini the codebook is NULL; a second init in a row leaves the pointer and all
\* tables as they were; a second fini in a row is harmless; and an init after a
\* fini rebuilds tables equal to those of the first build.
C17_CodebookLifecycle ==
  /\ ~fault
  /\ AfterInit =>
       /\ codebook # 0
       /\ \A k \in 1 .. MAXKAY :
            LET zeros == [i \in 0 .. (__M4RI_TWOPOW(k) - 1) |-> 0]
            IN  Tables(LifeState)[k] = m4ri_build_code(zeros, zeros, k)
       /\ Tables(LifeState) = first
       /\ before.pc \in {"m4ri_init", "m4ri_build_all_codes"} =>
            codebook = before.codebook /\ mem = before.mem
  /\ AfterFini =>
       /\ codebook = 0
       /\ before.pc \in {"m4ri_fini", "m4ri_destroy_all_codes"} => mem = before.mem

\* init, fini, init, init: the last init finds the codebook rebuilt after a teardown.
C17_Witness ==
  /\ AfterInit
  /\ before.pc \in {"m4ri_init", "m4ri_build_all_codes"}
  /\ \E p \in DOMAIN mem : ~mem[p].live
  /\ codebook > 1

\* The allocator under the wrapper failed: it reported an error or handed out NULL.
AllocatorFailed == raw.error # 0 \/ raw.ptr = 0

\* The calls the claim is about: m4ri_mm_calloc, and m4ri_mm_malloc of size > 0.
InScope == args[4] = "m4ri_mm_calloc" \/ args[3] > 0

\* C18: when the underlying allocator fails, m4ri_mm_calloc (any count, size) and
\* m4ri_mm_malloc (size > 0) call m4ri_die, which writes the diagnostic and aborts;
\* neither returns NULL to its caller, and every block m4ri_mm_calloc returns is
\* entirely zero.
C18_AllocFailure ==
  /\ (pc \in {"aborted", "returned"} /\ InScope /\ AllocatorFailed) =>
       /\ pc = "aborted"
       /\ stderr = (IF args[4] = "m4ri_mm_calloc"
                      THEN "m4ri_mm_calloc: calloc returned NULL\n"
                      ELSE "m4ri_mm_malloc: malloc returned NULL\n")
  /\ (pc = "returned" /\ InScope) => ret # 0
  /\ (pc = "returned" /\ args[4] = "m4ri_mm_calloc") => \A i \in DOMAIN bytes : bytes[i] = 0

\* m4ri_mm_calloc returns a block that the allocator handed out full of other bytes.
C18_Witness ==
  /\ pc = "returned"
  /\ args[4] = "m4ri_mm_calloc"
  /\ bytes # <<>>
  /\ \E i \in DOMAIN raw.bytes : raw.bytes[i] # 0

\* m4ri_mm_malloc(0) hands the allocator's NULL on to its caller.
MallocZeroReturnsNull ==
  /\ pc = "returned"
  /\ args[4] = "m4ri_mm_malloc"
  /\ args[3] = 0
  /\ ret = 0

(***************************************************************************)
(* Multiplication: the three algorithms agree.                             *)
(***************************************************************************)
AfterMulTest == pc = "mul_test_equality"

AfterAddmulTest == pc = "addmul_test_equality"

\* Strassen-Winograd really recursed: every dimension is above the cutoff in use.
Recursed == MIN(MIN(args[1], args[2]), args[3]) > StrassenCutoff(args[5])

SomeOdd == args[1] % 2 = 1 \/ args[2] % 2 = 1 \/ args[3] % 2 = 1

NonZero(X) == \E i \in 0 .. (X.nrows - 1) : X.rows[i] # {}

C22_Bitmasks ==
  /\ pc = "left_bitmask" =>
       /\ ret = (IF args[1] = 0 THEN 0 .. (m4ri_radix - 1) ELSE 0 .. (args[1] - 1))
       /\ ret # {}
  /\ (pc = "right_bitmask" /\ args[1] >= 1) =>
       /\ ret = (m4ri_radix - args[1]) .. (m4ri_radix - 1)
       /\ ret # {}

C22_Witness == pc = "left_bitmask" /\ args[1] = 0 /\ ret = m4ri_ffff

(***************************************************************************)
(* Bit reversal and least significant bits.                                *)
(***************************************************************************)
\* C23: m4ri_swap_bits(v) is the bit reversal of v, bit i of the result is bit
\* 63 - i of v for every 0 <= i < 64, and applying it twice gives v back.
C23_SwapBits ==
  /\ pc = "m4ri_swap_bits" =>
       \A i \in m4ri_ffff : (i \in ret) <=> ((m4ri_radix - 1 - i) \in args[1])
  /\ pc = "m4ri_swap_bits twice" => ret = args[1]

\* A word that is not its own reversal went there and back.
C23_Witness ==
  /\ pc = "m4ri_swap_bits twice"
  /\ ret = args[1]
  /\ m4ri_swap_bits(ret) # ret
  /\ Cardinality(ret) > 2

\* The index of the least significant set bit of w, 64 for the zero word.
LSBI(w) == IF w = {} THEN m4ri_radix ELSE CHOOSE x \in w : \A y \in w : x <= y

\* C30: m4ri_lesser_LSB(a, b) is non-zero exactly when LSBI(a) < LSBI(b), with
\* LSBI(0) = 64: false whenever a = 0, true whenever b = 0 and a # 0.
C30_LesserLSB ==
  pc = "m4ri_lesser_LSB" =>
    /\ (ret # 0) <=> (LSBI(args[1]) < LSBI(args[2]))
    /\ args[1] = {} => ret = 0
    /\ (args[2] = {} /\ args[1] # {}) => ret # 0

C30_Witness ==
  /\ pc = "m4ri_lesser_LSB"
  /\ Cardinality(args[1]) > 1 /\ Cardinality(args[2]) > 1
  /\ LSBI(args[1]) + 1 = LSBI(args[2])
  /\ ret = 1

(***************************************************************************)
(* The frame of mzd_row_add_offset.                                        *)
(***************************************************************************)
\* The storage positions of the words 0 .. width-1 of a row that are not columns
\* of M: below the offset in the first word, above the last column in the last.
OutsideSpan(Mx) ==
  {p \in 0 .. (m4ri_radix * Mx.width - 1) : p < Mx.offset \/ p >= Mx.offset + Mx.ncols}

RowAddOffsetFrame ==
  \A p \in OutsideSpan(M) : StorageBit(rows, args[1], p) = StorageBit(old, args[1], p)

\* C27: mzd_row_add_offset(M,dst,src,c) leaves unchanged every storage bit of
\* row dst outside M's column span, for every width >= 1, every 0 <= c < ncols
\* and every pair of rows, dst == src included.
C27_RowAddOffsetFrame == pc = "row_add_offset" => RowAddOffsetFrame

\* The same frame for distinct rows, where the reverted excess bits are the source's.
RowAddOffsetFrameDistinctRows ==
  (pc = "row_add_offset" /\ args[1] # args[2]) => RowAddOffsetFrame

(***************************************************************************)
(* The words a row swap touches.                                           *)
(***************************************************************************)
\* C28: for nrows >= 2, ncols >= 0 (so width >= 0) and distinct rows a, b,
\* mzd_row_swap(M,a,b) reads and writes only the words 0 .. width-1 of the two
\* rows, and _mzd_row_swap only the words start_word .. width-1.
C28_RowSwapWords ==
  /\ (pc = "row_swap words" /\ args[1] # args[2]) => ret \subseteq 0 .. (M.width - 1)
  /\ (pc = "_row_swap words" /\ args[1] # args[2]) => ret \subseteq args[3] .. (M.width - 1)

\* The same for matrices with at least one word per row.
RowSwapWordsWhenWide == M.width >= 1 => C28_RowSwapWords

(***************************************************************************)
(* The three row combinations agree.                                       *)
(***************************************************************************)
\* C29: for offset-0 matrices A and B of equal ncols, every row pair and every
\* start word s, mzd_combine_even_in_place(A,ra,s,B,rb,s) leaves A's storage as
\* mzd_combine_even(A,ra,s,A,ra,s,B,rb,s) does, and for s = 0 both leave it as
\* mzd_combine_weird(A,ra,0,A,ra,0,B,rb,0) does, logical and excess bits alike.
C29_CombineInPlace ==
  (pc = "combine_even_in_place" /\ M.offset = 0) =>
    LET even == mzd_combine_even(M, old, args[1], args[2], srcA, args[1], args[2],
                                 srcB, args[3], args[4])
    IN  /\ rows = even
        /\ args[2] = 0 =>
             even = mzd_combine_weird(M, old, args[1], 0, srcA, args[1], 0, srcB, args[3], 0)

\* A row of two words with a partial last word is combined from word 0 with a
\* row of another matrix whose excess bits are set, and it changes.
C29_Witness ==
  /\ pc = "combine_even_in_place"
  /\ M.offset = 0 /\ M.width = 2 /\ M.ncols % m4ri_radix # 0
  /\ args[2] = 0
  /\ srcB.rows # old
  /\ \E p \in StoragePos \ Cols(M) : StorageBit(srcB.rows, args[3], p) = 1
  /\ rows[args[1]][0] # old[args[1]][0]
  /\ rows[args[1]][1] # old[args[1]][1]

(***************************************************************************)
(* The blocks of the codebook.                                             *)
(***************************************************************************)
LiveBlocks(heap) == {p \in DOMAIN heap : heap[p].live}

\* The codebook array and, for each k in 1 .. MAXKAY, the code, its ord and its inc.
BlocksOfABuild == 1 + 3 * MAXKAY

AfterDestroy ==
  /\ pc \in {"m4ri_destroy_all_codes", "m4ri_fini"}
  /\ before.codebook # 0

\* C25: over any sequence of builds and destroys, every block a build allocated
\* is freed exactly once by the next destroy: no block is freed twice or used
\* after its free, slot 0 of the codebook is never dereferenced (it stays
\* NULL, and a NULL dereference would be a fault), and nothing a build
\* allocated is still allocated after the destroy.
C25_CodebookBlocks ==
  /\ ~fault
  /\ codebook = 0 => LiveBlocks(mem) = {}
  /\ codebook # 0 =>
       /\ Cardinality(LiveBlocks(mem)) = BlocksOfABuild
       /\ codebook \in LiveBlocks(mem)
       /\ mem[codebook].data[0] = 0
  /\ AfterDestroy =>
       /\ Cardinality(LiveBlocks(before.mem)) = BlocksOfABuild
       /\ Len(mem) = Len(before.mem)
       /\ \A p \in LiveBlocks(before.mem) : ~mem[p].live
       /\ \A p \in DOMAIN mem : mem[p].data = before.mem[p].data

\* The second build has been destroyed: two generations of blocks, all freed.
C25_Witness ==
  /\ AfterDestroy
  /\ Len(mem) = 2 * BlocksOfABuild
  /\ LiveBlocks(mem) = {}
  /\ ~fault

(***************************************************************************)
(* The address of a row.                                                   *)
(***************************************************************************)
\* The number of rows of the matrix that lie in the blocks before block n.
RECURSIVE RowsBeforeBlock(_, _)
RowsBeforeBlock(L, n) ==
  IF n = 0 THEN 0 ELSE RowsBeforeBlock(L, n - 1) + mzd_rows_in_block(L, n - 1)

\* blocks[block(i)].begin + offset_vector + (i - rows_before_block(i)) * rowstride
RecomputedRow(L, i) ==
  LET n == mzd_row_to_block(L, i)
  IN  L.blocks[n].begin + L.offset_vector + (i - RowsBeforeBlock(L, n)) * L.rowstride

\* offset_vector reaches down to the first row, row_offset rows into block 0;
\* the rows of a later block start at its begin, that many rows higher.
RecomputedRowLaterBlocks(L, i) ==
  IF mzd_row_to_block(L, i) = 0
    THEN RecomputedRow(L, i)
    ELSE RecomputedRow(L, i) - L.row_offset * L.rowstride

CachedAndNextBlock ==
  /\ pc = "mzd_row" => ret = lay.rows[args[1]]
  /\ pc = "mzd_first_row" => ret = lay.rows[0]
  /\ pc = "mzd_first_row_next_block" => ret = mzd_row(lay, RowsBeforeBlock(lay, args[1]))
  /\ pc = "mzd_rows_in_block" =>
       ret = Cardinality({i \in DOMAIN lay.rows : mzd_row_to_block(lay, i) = args[1]})

\* C24 as stated: for every matrix or window, windows with row_offset > 0 over
\* several blocks included, mzd_row(M,i) is blocks[block(i)].begin +
\* offset_vector + (i - rows_before_block(i)) * rowstride, it is the cached
\* rows[i], and mzd_first_row_next_block(M,n) is mzd_row of the first row of block n.
C24_RowAddressAsStated ==
  /\ pc = "mzd_row" => ret = RecomputedRow(lay, args[1])
  /\ CachedAndNextBlock

\* C24: the same with row_offset * rowstride taken off the expression for the
\* rows of the blocks after the first.
C24_RowAddress ==
  /\ pc = "mzd_row" => ret = RecomputedRowLaterBlocks(lay, args[1])
  /\ CachedAndNextBlock

\* A row in the third block of a window that starts inside its first block.
C24_Witness ==
  /\ pc = "mzd_row"
  /\ lay.row_offset > 0
  /\ lay.offset_vector > lay.row_offset * lay.rowstride
  /\ mzd_row_to_block(lay, args[1]) = 2
  /\ ret = lay.rows[args[1]]
  /\ ret # RecomputedRow(lay, args[1])

\* The rank over GF(2), by elimination column by column.
RECURSIVE RankFrom(_, _)
RankFrom(rws, j) ==
  IF j < 0 \/ rws = {}
    THEN 0
    ELSE LET with == {x \in rws : j \in x}
         IN  IF with = {}
               THEN RankFrom(rws, j - 1)
               ELSE LET p == CHOOSE x \in with : TRUE
                    IN  1 + RankFrom({IF j \in x THEN XOR(x, p) ELSE x : x \in rws \ {p}} \ {{}},
                                     j - 1)

Rank(A) == RankFrom({A.rows[i] : i \in 0 .. (A.nrows - 1)} \ {{}}, A.ncols - 1)

\* The column of the leading 1 of a non-zero row.
Lead(row) == CHOOSE j \in row : \A x \in row : j <= x

NonZeroRows(A) == {i \in 0 .. (A.nrows - 1) : A.rows[i] # {}}

\* The non-zero rows come first and their leading 1s move strictly to the right.
LeadsIncrease(A) ==
  \A i \in NonZeroRows(A) :
    i > 0 => /\ (i - 1) \in NonZeroRows(A)
             /\ Lead(A.rows[i - 1]) < Lead(A.rows[i])

\* Every pivot column holds a single 1.
PivotColumnsAreUnit(A) ==
  \A i \in NonZeroRows(A) :
    \A q \in 0 .. (A.nrows - 1) : q # i => Lead(A.rows[i]) \notin A.rows[q]

EchReturned == ech # <<>> /\ ech.state = "done"

\* C21: echelonize(A, full = true) returns the GF(2) rank of its input and leaves
\* a matrix with that many non-zero rows, whose leading 1s are in strictly
\* increasing columns and whose pivot columns are standard basis vectors.
C21_EchelonizeReduced ==
  (EchReturned /\ ech.full) =>
    /\ ech.r = Rank(ech.input)
    /\ Cardinality(NonZeroRows(ech.A)) = ech.r
    /\ LeadsIncrease(ech.A)
    /\ PivotColumnsAreUnit(ech.A)

\* C26: echelonize always reaches done, there r == nrows or c == ncols, and r and
\* c never decrease and never exceed nrows and ncols.
C26_EchelonizeTerminates ==
  /\ <>EchReturned
  /\ [](EchReturned => (ech.r = ech.A.nrows \/ ech.c = ech.A.ncols))
  /\ [](ech.r <= ech.A.nrows /\ ech.c <= ech.A.ncols)
  /\ [][ech.r <= ech'.r /\ ech.c <= ech'.c]_vars


====
